---- MODULE Spec2Model ----
(***************************************************************************)
(* Model of the candidate disambiguation and field-normalisation pipeline  *)
(* of AutomatisierungBP: PDFScanner.py (text normaliser, address splitter, *)
(* document field extractor), bpauto/providers/northdata.py (best-match    *)
(* selector, fetch), bpauto/excel_io.py (name parts of a row), and         *)
(* PlayHandelsregister.py (postal-code token test, batch loop).            *)
(*                                                                         *)
(* A Python str is a sequence of one-character strings.  Control and       *)
(* non-ASCII characters have the names NL, CR, TAB, NBSP below.            *)
(***************************************************************************)
EXTENDS Integers, Sequences, FiniteSets, TLC

VARIABLES
    pc,         \* the step the run is at
    text,       \* normalize_text: the input
    once,       \* normalize_text(text)
    twice,      \* normalize_text(normalize_text(text))
    doc,        \* extract_from_text: the document text
    result,     \* what the extractor returned or raised
    api_raw,    \* fetch: the response _query_api returned
    arg_name,   \* fetch: the company name asked for
    arg_zip,    \* fetch: the postal code asked for, or None
    arg_city,   \* fetch: the city asked for, or None
    matched,    \* what _best_match returned
    fetched,    \* the record fetch returned
    zip_text,   \* looks_like_same_zip: the address text, or None
    zip_plz,    \* looks_like_same_zip: the postal code, or None
    same_zip,   \* what looks_like_same_zip returned
    jobs,       \* batch: the jobs read_jobs_from_excel returned
    download_ad,\* batch: args.download_ad
    job_i,      \* batch: the 1-based position of the job the loop is at
    sheet,      \* batch: the rows of the workbook file
    downloads,  \* batch: per job, the AD downloads started
    seen,       \* batch: per job, len(results) of get_results, -1 before it
    counter,    \* batch: the searches submitted (global counter)
    waits,      \* batch: the number of hour-timer waits
    split_addr, \* split: the address given to split_german_address
    split_parts,\* split: the dict split_german_address returned
    name_parts, \* combine: the parts given to _combine_name_parts
    name_out,   \* combine: what _combine_name_parts returned
    cli_rows,   \* cli: the rows iter_rows yields
    dry_run,    \* cli: args.dry_run
    cli_i,      \* cli: the 1-based position of the row the loop is at
    fetch_calls,\* cli: the keyword arguments of every provider.fetch call
    processed,  \* cli: the counter processed
    cli_hits,   \* cli: the counter hits
    no_result,  \* cli: the counter no_result
    errors,     \* cli: the counter errors
    written,    \* cli: the row_index of every write_result call
    saved,      \* cli: excel_io.save was called
    exit_code,  \* cli: what main returned, -1 before it returns
    query_args, \* request: name, zip_code, city, country given to fetch
    sent_params,\* request: the params of every requests.get call
    replies,    \* request: what every requests.get call gave
    query_raw,  \* request: what _query_api returned or raised
    fetch_result,\* request: what fetch returned or raised
    wb_file,    \* workbook: per path, the cells of the sheet in the file
    wb_cache,   \* workbook: _WORKBOOK_CACHE, the sheet of every loaded path
    wb_args,    \* workbook: the arguments given to iter_rows
    wb_rows,    \* workbook: what iter_rows yielded or raised
    wb_writes,  \* workbook: the write_result calls, each lost or not
    wb_saved,   \* workbook: per path, the number of writes before its last save call
    window,     \* timer: the searches submitted since the timer was started
    wait_at \* timer: per wait of the loop, the value of counter at the wait

normalizeVars == <<text, once, twice>>

extractVars == <<doc, result>>

queryVars == <<api_raw, arg_name, arg_zip, arg_city>>

matchVars == <<queryVars, matched, fetched>>

zipVars == <<zip_text, zip_plz, same_zip>>

batchVars == <<jobs, download_ad, job_i, sheet, downloads, seen, counter, waits>>

splitVars == <<split_addr, split_parts>>

combineVars == <<name_parts, name_out>>

cliVars ==
    <<cli_rows, dry_run, cli_i, fetch_calls, processed, cli_hits, no_result, errors,
      written, saved, exit_code>>

requestVars == <<query_args, sent_params, replies, query_raw, fetch_result>>

workbookVars == <<wb_file, wb_cache, wb_args, wb_rows, wb_writes, wb_saved>>

timerVars == <<window, wait_at>>

vars ==
    <<pc, normalizeVars, extractVars, matchVars, zipVars, batchVars, splitVars,
      combineVars, cliVars, requestVars, workbookVars, timerVars>>

----------------------------------------------------------------------------
(* Characters and character classes (Python's re: \d, \w, \s).             *)

NL == "\n"
CR == "\r"
TAB == "\t"
NBSP == "NBSP"
SZ == "sz"

\* the letters of [A-Za-z] and the umlauts of the register-type pattern, as
\* lower/upper pairs (the umlauts are written a", o", u" in ASCII)
LowerLetters ==
    <<"a", "b", "c", "d", "e", "f", "g", "h", "i", "j", "k", "l", "m",
      "n", "o", "p", "q", "r", "s", "t", "u", "v", "w", "x", "y", "z",
      "a_uml", "o_uml", "u_uml">>

UpperLetters ==
    <<"A", "B", "C", "D", "E", "F", "G", "H", "I", "J", "K", "L", "M",
      "N", "O", "P", "Q", "R", "S", "T", "U", "V", "W", "X", "Y", "Z",
      "A_UML", "O_UML", "U_UML">>

AsciiLetterCount == 26

Range(f) == {f[i] : i \in DOMAIN f}

Letters == Range(LowerLetters) \cup Range(UpperLetters)

AsciiLetters ==
    {LowerLetters[i] : i \in 1..AsciiLetterCount} \cup {UpperLetters[i] : i \in 1..AsciiLetterCount}

Digits == {"0", "1", "2", "3", "4", "5", "6", "7", "8", "9"}

\* re \d
IsDigit(c) == c \in Digits

Blanks == {" ", TAB, NL, CR, NBSP}

\* re \s and the characters str.strip() and str.split() treat as blank
IsSpace(c) == c \in Blanks

WordChars == Letters \cup Digits \cup {"_", SZ}

\* re \w
IsWord(c) == c \in WordChars

UpperMap ==
    [c \in Range(LowerLetters) |->
        UpperLetters[CHOOSE i \in DOMAIN LowerLetters : LowerLetters[i] = c]]

LowerMap ==
    [c \in Range(UpperLetters) |->
        LowerLetters[CHOOSE i \in DOMAIN UpperLetters : UpperLetters[i] = c]]

\* c.upper() and c.lower() for one character
UpperCh(c) == IF c \in DOMAIN UpperMap THEN UpperMap[c] ELSE c

LowerCh(c) == IF c \in DOMAIN LowerMap THEN LowerMap[c] ELSE c

----------------------------------------------------------------------------
(* str helpers                                                             *)

\* s[i:] for a 1-based i (the empty str when i is past the end)
From(s, i) == IF i > Len(s) THEN <<>> ELSE SubSeq(s, i, Len(s))

\* s.startswith(p, i-1): p occurs in s at the 1-based position i
StartsAt(s, p, i) ==
    /\ i + Len(p) - 1 <= Len(s)
    /\ \A k \in 1..Len(p) : s[i + k - 1] = p[k]

\* the pieces lo..hi of a sequence of strs, concatenated
RECURSIVE ConcatRange(_, _, _)
ConcatRange(pieces, lo, hi) ==
    IF lo > hi THEN <<>>
    ELSE IF lo = hi THEN pieces[lo]
    ELSE ConcatRange(pieces, lo, (lo + hi) \div 2)
             \o ConcatRange(pieces, (lo + hi) \div 2 + 1, hi)

\* "".join(pieces)
Concat(pieces) == ConcatRange(pieces, 1, Len(pieces))

----------------------------------------------------------------------------
(* PDFScanner.normalize_text                                               *)

\* unicodedata.normalize("NFKC", s), character by character: NFKC maps the
\* no-break space to a space and leaves ASCII alone
Nfkc(s) == [i \in 1..Len(s) |-> IF s[i] = NBSP THEN " " ELSE s[i]]

\* s.replace(NBSP, " ")
ReplaceNbsp(s) == [i \in 1..Len(s) |-> IF s[i] = NBSP THEN " " ELSE s[i]]

\* s[i-1:].replace("\r\n", "\n"): what each character leaves; a CR in front
\* of a line feed leaves nothing
ReplaceCrLfFrom(s, i) ==
    ConcatRange([k \in 1..Len(s) |->
                    IF s[k] = CR /\ k < Len(s) /\ s[k + 1] = NL
                    THEN <<>> ELSE <<s[k]>>], i, Len(s))

\* s.replace("\r\n", "\n").replace("\r", "\n")
UnifyLineEndings(s) ==
    LET t == ReplaceCrLfFrom(s, 1)
    IN  [i \in 1..Len(t) |-> IF t[i] = CR THEN NL ELSE t[i]]

\* r"-\n(?=\w)" matches in s at position k
HyphenationAt(s, k) ==
    /\ k >= 1
    /\ k + 2 <= Len(s)
    /\ s[k] = "-"
    /\ s[k + 1] = NL
    /\ IsWord(s[k + 2])

\* re.sub(r"-\n(?=\w)", "", s[i-1:]): the two characters of a match leave
\* nothing (matches cannot overlap: the second character is no hyphen)
DehyphenateFrom(s, i) ==
    ConcatRange([k \in 1..Len(s) |->
                    IF HyphenationAt(s, k) \/ (k > i /\ HyphenationAt(s, k - 1))
                    THEN <<>> ELSE <<s[k]>>], i, Len(s))

\* re.sub(r"-\n(?=\w)", "", s): one left-to-right pass over s
Dehyphenate(s) == DehyphenateFrom(s, 1)

\* the first blank of a run leaves one space, the others nothing
CollapseFrom(s, i) ==
    ConcatRange([k \in 1..Len(s) |->
                    IF s[k] \in {" ", TAB}
                    THEN IF k > 1 /\ s[k - 1] \in {" ", TAB} THEN <<>> ELSE <<" ">>
                    ELSE <<s[k]>>], i, Len(s))

\* re.sub(r"[ \t]+", " ", s)
CollapseBlanks(s) == CollapseFrom(s, 1)

\* each step works on the finished value of the step before it
normalize_text(s) ==
    IF s = <<>> THEN <<>>
    ELSE CHOOSE s4 \in
            {CollapseBlanks(s3) : s3 \in
                {Dehyphenate(s2) : s2 \in
                    {UnifyLineEndings(s1) : s1 \in {ReplaceNbsp(Nfkc(s))}}}} : TRUE

----------------------------------------------------------------------------
(* More str helpers                                                        *)

\* s.upper() and s.lower() over the characters of the model; the sharp s has
\* no upper-case letter and upper() writes it as SS
Upper(s) ==
    Concat([k \in 1..Len(s) |->
               IF s[k] = SZ THEN <<"S", "S">> ELSE <<UpperCh(s[k])>>])

Lower(s) == [i \in 1..Len(s) |-> LowerCh(s[i])]

\* the first position >= i of s that holds no blank (Len(s) + 1 if none)
SkipSpaces(s, i) ==
    IF i > Len(s) THEN i
    ELSE CHOOSE k \in i..(Len(s) + 1) :
            /\ k > Len(s) \/ ~IsSpace(s[k])
            /\ \A j \in i..(k - 1) : IsSpace(s[j])

\* the last position <= i of s that holds no blank (0 if none)
SkipSpacesBack(s, i) ==
    IF i < 1 THEN i
    ELSE CHOOSE k \in 0..i :
            /\ k = 0 \/ ~IsSpace(s[k])
            /\ \A j \in (k + 1)..i : IsSpace(s[j])

\* s.strip()
Strip(s) ==
    LET a == SkipSpaces(s, 1)
        b == SkipSpacesBack(s, Len(s))
    IN  IF a > b THEN <<>> ELSE SubSeq(s, a, b)

\* the first position >= i of s that holds c (Len(s) + 1 if none)
Find(s, c, i) ==
    IF i > Len(s) THEN i
    ELSE CHOOSE k \in i..(Len(s) + 1) :
            /\ k > Len(s) \/ s[k] = c
            /\ \A j \in i..(k - 1) : s[j] # c

\* s.split(sep) for a one-character sep: the pieces between the separators,
\* empty pieces included
RECURSIVE SplitOn(_, _)
SplitOn(s, sep) ==
    LET k == Find(s, sep, 1)
    IN  IF k > Len(s) THEN <<s>>
        ELSE <<SubSeq(s, 1, k - 1)>> \o SplitOn(From(s, k + 1), sep)

\* the first position >= i of s that holds a blank (Len(s) + 1 if none)
SkipWord(s, i) ==
    IF i > Len(s) THEN i
    ELSE CHOOSE k \in i..(Len(s) + 1) :
            /\ k > Len(s) \/ IsSpace(s[k])
            /\ \A j \in i..(k - 1) : ~IsSpace(s[j])

\* s.split(): the maximal runs of non-blank characters
RECURSIVE SplitWordsFrom(_, _)
SplitWordsFrom(s, i) ==
    LET a == SkipSpaces(s, i)
        b == SkipWord(s, a)
    IN  IF a > Len(s) THEN <<>>
        ELSE <<SubSeq(s, a, b - 1)>> \o SplitWordsFrom(s, b)

SplitWords(s) == SplitWordsFrom(s, 1)

\* the characters of s that satisfy Keep, in order: re.sub(r"[^...]", "", s)
KeepOnly(s, keep) == SelectSeq(s, LAMBDA c : c \in keep)

\* sep.join(parts)
RECURSIVE Join(_, _)
Join(parts, sep) ==
    IF parts = <<>> THEN <<>>
    ELSE IF Len(parts) = 1 THEN parts[1]
    ELSE parts[1] \o sep \o Join(Tail(parts), sep)

\* re.IGNORECASE match of the literal lit in s at position i
StartsAtCI(s, lit, i) ==
    /\ i + Len(lit) - 1 <= Len(s)
    /\ \A k \in 1..Len(lit) : LowerCh(s[i + k - 1]) = LowerCh(lit[k])

\* the position after the end of the line that holds position i
EndOfLine(s, i) == Find(s, NL, i)

\* The tail "\s*(.+)" (minBlanks = 0) or "\s+(.+)" (minBlanks = 1) of a
\* pattern, matched at position p.  The blanks are taken greedily; "." takes
\* no line break, so the group starts at the first character after the
\* blanks or, when the blanks run to the end of s, at the last blank that is
\* no line break and that the blanks can give back.  The value is
\* [found |-> whether it matches, group |-> what (.+) captures].
TailGroup(s, p, minBlanks) ==
    LET q == SkipSpaces(s, p)
        starts == {k \in (p + minBlanks)..q : k <= Len(s) /\ s[k] # NL}
    IN  IF starts = {} THEN [found |-> FALSE, group |-> <<>>]
        ELSE LET k == CHOOSE m \in starts : \A n \in starts : n <= m
             IN  [found |-> TRUE, group |-> SubSeq(s, k, EndOfLine(s, k) - 1)]

----------------------------------------------------------------------------
(* Python dicts are functions from keys to values.  A str literal of the   *)
(* source that is only ever used whole (a dict key, the sentinel value) is *)
(* kept as one atom; a str computed from a text is a sequence of           *)
(* one-character strings, so the two never compare equal unless the source *)
(* could make them equal.                                                  *)

Lit(name) == <<name>>

EmptyDict == <<>>

\* d1 | d2, and {**d1, **d2}: the entries of d2 win
Merge(d1, d2) ==
    [k \in DOMAIN d1 \cup DOMAIN d2 |-> IF k \in DOMAIN d2 THEN d2[k] ELSE d1[k]]

\* the outcome of a call: a returned value or a raised exception
Return(v) == [exc |-> "none", val |-> v]

Raise(e) == [exc |-> e, val |-> EmptyDict]

----------------------------------------------------------------------------
(* PDFScanner.replace_umlauts and PDFScanner.split_german_address          *)

\* s.replace(old, new) for a non-empty old: left to right, occurrences do
\* not overlap; one step for each occurrence
RECURSIVE ReplaceAllFrom(_, _, _, _)
ReplaceAllFrom(s, old, new, i) ==
    IF i > Len(s) THEN <<>>
    ELSE LET hits == {k \in i..Len(s) : StartsAt(s, old, k)}
         IN  IF hits = {} THEN SubSeq(s, i, Len(s))
             ELSE LET k == CHOOSE m \in hits : \A h \in hits : m <= h
                  IN  SubSeq(s, i, k - 1) \o new
                          \o ReplaceAllFrom(s, old, new, k + Len(old))

ReplaceAll(s, old, new) == ReplaceAllFrom(s, old, new, 1)

\* each replacement works on the finished value of the one before it
replace_umlauts(s) ==
    CHOOSE s5 \in
        {ReplaceAll(s4, <<SZ>>, <<"S", "S">>) : s4 \in
            {ReplaceAll(s3, <<"U_UML">>, <<"U", "E">>) : s3 \in
                {ReplaceAll(s2, <<"A_UML">>, <<"A", "E">>) : s2 \in
                    {ReplaceAll(s1, <<"O_UML">>, <<"O", "E">>) : s1 \in
                        {ReplaceAll(s0, <<"S", "T", "R", ".">>,
                                    <<"S", "T", "R", "A", "S", "S", "E">>) :
                            s0 \in {s}}}}}} : TRUE

\* the first position >= i of s that holds a digit (Len(s) + 1 if none)
FindDigit(s, i) ==
    IF i > Len(s) THEN i
    ELSE CHOOSE k \in i..(Len(s) + 1) :
            /\ k > Len(s) \/ IsDigit(s[k])
            /\ \A j \in i..(k - 1) : ~IsDigit(s[j])

\* the first position >= i of s that holds no digit (Len(s) + 1 if none)
SkipDigits(s, i) ==
    IF i > Len(s) THEN i
    ELSE CHOOSE k \in i..(Len(s) + 1) :
            /\ k > Len(s) \/ ~IsDigit(s[k])
            /\ \A j \in i..(k - 1) : IsDigit(s[j])

\* re.fullmatch(r"\d+\s+[A-Za-z]", house)
HouseShape(house) ==
    LET d == SkipDigits(house, 1)
        b == SkipSpaces(house, d)
    IN  /\ d > 1
        /\ b > d
        /\ b = Len(house)
        /\ house[b] \in AsciiLetters

\* PostalMatch taking a run of lo or more digits, however long, as the code
PostalMatchAnyLength(right, lo, hi) ==
    LET a == SkipSpaces(right, 1)
        e == SkipDigits(right, a)
        tail == TailGroup(right, e, 1)
    IN  IF (e - a) >= lo /\ tail.found
        THEN [found |-> TRUE, plz |-> SubSeq(right, a, e - 1), city |-> tail.group]
        ELSE [found |-> FALSE, plz |-> <<>>, city |-> <<>>]

\* re.match(r"\s*(\d{lo,hi})\s+(.+)", right): the digits are followed by a
\* blank, so the run of digits is the whole code
PostalMatch(right, lo, hi) ==
    LET a == SkipSpaces(right, 1)
        e == SkipDigits(right, a)
        tail == TailGroup(right, e, 1)
    IN  IF (e - a) \in lo..hi /\ tail.found
        THEN [found |-> TRUE, plz |-> SubSeq(right, a, e - 1), city |-> tail.group]
        ELSE [found |-> FALSE, plz |-> <<>>, city |-> <<>>]

\* the position of the last c in s at or before position i (0 if none)
RECURSIVE FindLast(_, _, _)
FindLast(s, c, i) ==
    IF i >= 1 /\ s[i] # c THEN FindLast(s, c, i - 1) ELSE i

\* split_german_address splitting at the last comma instead of the first
split_german_address_at_last_comma(addr) ==
    LET comma == IF FindLast(addr, ",", Len(addr)) = 0 THEN Len(addr) + 1
                 ELSE FindLast(addr, ",", Len(addr))
        hasComma == comma <= Len(addr)
        left == Strip(IF hasComma THEN SubSeq(addr, 1, comma - 1) ELSE addr)
        right == Strip(IF hasComma THEN From(addr, comma + 1) ELSE <<>>)
        d == FindDigit(left, 1)
        street == IF d <= Len(left) THEN Strip(SubSeq(left, 1, d - 1)) ELSE left
        house0 == IF d <= Len(left) THEN Strip(From(left, d)) ELSE <<>>
        house == IF HouseShape(house0) THEN ReplaceAll(house0, <<" ">>, <<>>) ELSE house0
        m5 == PostalMatch(right, 5, 5)
        m == IF m5.found THEN m5 ELSE PostalMatch(right, 4, 5)
    IN  (Lit("street") :> street) @@ (Lit("house_number") :> house)
        @@ (Lit("postal_code") :> (IF m.found THEN m.plz ELSE <<>>))
        @@ (Lit("city") :> (IF m.found THEN Strip(m.city) ELSE right))

\* split_german_address taking an address without comma as the right segment
split_german_address_comma_less_right(addr) ==
    LET comma == Find(addr, ",", 1)
        hasComma == comma <= Len(addr)
        left == Strip(IF hasComma THEN SubSeq(addr, 1, comma - 1) ELSE <<>>)
        right == Strip(IF hasComma THEN From(addr, comma + 1) ELSE addr)
        d == FindDigit(left, 1)
        street == IF d <= Len(left) THEN Strip(SubSeq(left, 1, d - 1)) ELSE left
        house0 == IF d <= Len(left) THEN Strip(From(left, d)) ELSE <<>>
        house == IF HouseShape(house0) THEN ReplaceAll(house0, <<" ">>, <<>>) ELSE house0
        m5 == PostalMatch(right, 5, 5)
        m == IF m5.found THEN m5 ELSE PostalMatch(right, 4, 5)
    IN  (Lit("street") :> street) @@ (Lit("house_number") :> house)
        @@ (Lit("postal_code") :> (IF m.found THEN m.plz ELSE <<>>))
        @@ (Lit("city") :> (IF m.found THEN Strip(m.city) ELSE right))

split_german_address(addr) ==
    LET comma == Find(addr, ",", 1)
        hasComma == comma <= Len(addr)
        left == Strip(IF hasComma THEN SubSeq(addr, 1, comma - 1) ELSE addr)
        right == Strip(IF hasComma THEN From(addr, comma + 1) ELSE <<>>)
        d == FindDigit(left, 1)
        street == IF d <= Len(left) THEN Strip(SubSeq(left, 1, d - 1)) ELSE left
        house0 == IF d <= Len(left) THEN Strip(From(left, d)) ELSE <<>>
        house == IF HouseShape(house0) THEN ReplaceAll(house0, <<" ">>, <<>>) ELSE house0
        m5 == PostalMatch(right, 5, 5)
        m == IF m5.found THEN m5 ELSE PostalMatch(right, 4, 5)
    IN  (Lit("street") :> street) @@ (Lit("house_number") :> house)
        @@ (Lit("postal_code") :> (IF m.found THEN m.plz ELSE <<>>))
        @@ (Lit("city") :> (IF m.found THEN Strip(m.city) ELSE right))

----------------------------------------------------------------------------
(* PDFScanner.extract_from_text_2nd_format (Layout B)                      *)

\* [ln.strip() for ln in t.split("\n")]
StrippedLines(t) ==
    LET raw == SplitOn(t, NL)
    IN  [i \in 1..Len(raw) |-> Strip(raw[i])]

\* whether int(w) returns: an optional sign, then digits, single underscores
\* allowed between digits; anything else raises ValueError
IsIntLiteral(w) ==
    LET body == IF w # <<>> /\ w[1] \in {"+", "-"} THEN Tail(w) ELSE w
    IN  /\ body # <<>>
        /\ \A i \in 1..Len(body) : IsDigit(body[i]) \/ body[i] = "_"
        /\ IsDigit(body[1])
        /\ IsDigit(body[Len(body)])
        /\ \A i \in 1..(Len(body) - 1) : ~(body[i] = "_" /\ body[i + 1] = "_")

\* bool(int(w)) for an int literal w
IntIsNonZero(w) == \E i \in 1..Len(w) : IsDigit(w[i]) /\ w[i] # "0"

\* re.sub(r"[^A-Za-z<umlauts>]", "", w).upper()
RegType(w) == Upper(KeepOnly(w, Letters))

\* re.search(r"^\s*2\.\s*a\)", ln, flags=re.IGNORECASE)
IsLine2a(ln) ==
    LET j == SkipSpaces(ln, 1)
        k == SkipSpaces(ln, j + 2)
    IN  /\ StartsAt(ln, <<"2", ".">>, j)
        /\ StartsAtCI(ln, <<"a", ")">>, k)

\* re.search(r"^\s*(?:2\.\s*)?b\)", ln, flags=re.IGNORECASE)
IsLineB(ln) ==
    LET j == SkipSpaces(ln, 1)
        k == SkipSpaces(ln, j + 2)
    IN  \/ StartsAtCI(ln, <<"b", ")">>, j)
        \/ StartsAt(ln, <<"2", ".">>, j) /\ StartsAtCI(ln, <<"b", ")">>, k)

\* re.search(r"^\s*3\.", ln)
IsLine3(ln) == StartsAt(ln, <<"3", ".">>, SkipSpaces(ln, 1))

\* the index of the first line from line i on that satisfies Test(_), 0 if
\* there is none
RECURSIVE FirstLineFrom(_, _, _)
FirstLineFrom(lines, Test(_), i) ==
    IF i > Len(lines) THEN 0
    ELSE IF Test(lines[i]) THEN i
    ELSE FirstLineFrom(lines, Test, i + 1)

FirstLine(lines, Test(_)) == FirstLineFrom(lines, Test, 1)

\* the non-empty lines after line a up to the next "b)" line
RECURSIVE Collect(_, _)
Collect(lines, i) ==
    IF i > Len(lines) \/ IsLineB(lines[i]) THEN <<>>
    ELSE (IF lines[i] # <<>> THEN <<lines[i]>> ELSE <<>>) \o Collect(lines, i + 1)

\* the dict returned when a section marker is missing
UnexpectedFormat(reg_type) == (reg_type :> Lit("unexpected Format"))

\* SecondFormatBody looking for the start of section 3 directly below the
\* "b)" line instead of two lines below it
SecondFormatBodyNextLine(lines, reg_type, reg_number) ==
    LET idx_a == FirstLine(lines, IsLine2a)
        idx_b == FirstLine(lines, IsLineB)
        company == Join(Collect(lines, idx_a + 1), <<" ">>)
        head == (Lit("register_type") :> reg_type)
                @@ (Lit("register_number") :> reg_number)
                @@ (Lit("company_name") :> company)
    IN  IF idx_a = 0 THEN Return(UnexpectedFormat(reg_type))
        ELSE IF idx_b = 0 THEN Return(UnexpectedFormat(reg_type))
        ELSE IF idx_b + 2 > Len(lines) THEN Raise("IndexError")
        ELSE IF IsLine3(lines[idx_b + 1])
             THEN Return(head @@ (Lit("city") :> Strip(lines[idx_b + 1])))
             ELSE CHOOSE out \in
                     {Return(Merge(head @@ (Lit("address") :> address),
                                   split_german_address(upper))) :
                          address \in {Strip(lines[idx_b + 2])},
                          upper \in {replace_umlauts(Upper(Strip(lines[idx_b + 2])))}} : TRUE

\* the part of extract_from_text_2nd_format after the header line
SecondFormatBody(lines, reg_type, reg_number) ==
    LET idx_a == FirstLine(lines, IsLine2a)
        idx_b == FirstLine(lines, IsLineB)
        company == Join(Collect(lines, idx_a + 1), <<" ">>)
        head == (Lit("register_type") :> reg_type)
                @@ (Lit("register_number") :> reg_number)
                @@ (Lit("company_name") :> company)
    IN  IF idx_a = 0 THEN Return(UnexpectedFormat(reg_type))
        ELSE IF idx_b = 0 THEN Return(UnexpectedFormat(reg_type))
        ELSE IF idx_b + 2 > Len(lines) THEN Raise("IndexError")
        ELSE IF IsLine3(lines[idx_b + 2])
             THEN Return(head @@ (Lit("city") :> Strip(lines[idx_b + 1])))
             ELSE CHOOSE out \in
                     {Return(Merge(head @@ (Lit("address") :> address),
                                   split_german_address(upper))) :
                          address \in {Strip(lines[idx_b + 2])},
                          upper \in {replace_umlauts(Upper(Strip(lines[idx_b + 2])))}} : TRUE

extract_from_text_2nd_format(txt) ==
    CHOOSE out \in
        {IF Len(lines) < 4 THEN Raise("IndexError")
         ELSE LET words == SplitWords(lines[4])
                  n == Len(words)
              IN  IF n < 2 THEN Raise("IndexError")
                  ELSE IF ~IsIntLiteral(words[n - 1]) THEN Raise("ValueError")
                  ELSE IF IntIsNonZero(words[n - 1])
                       THEN IF n < 3 THEN Raise("IndexError")
                            ELSE SecondFormatBody(lines, RegType(words[n - 2]),
                                                  words[n - 1] \o <<" ">> \o words[n])
                       ELSE SecondFormatBody(lines, RegType(words[n - 1]), words[n]) :
             lines \in {StrippedLines(normalize_text(txt))}} : TRUE

----------------------------------------------------------------------------
(* PDFScanner.extract_from_text (Layout A, falling through to Layout B)    *)

\* FIRMA_LINE matched with its first character at position i
FirmaAt(s, i) ==
    LET j == SkipSpaces(s, i + 2)
        k == SkipSpaces(s, j + 2)
        tail == TailGroup(s, k + 6, 0)
    IN  IF /\ StartsAt(s, <<"2", ".">>, i)
           /\ (i = 1 \/ ~IsWord(s[i - 1]))
           /\ StartsAtCI(s, <<"a", ")">>, j)
           /\ StartsAtCI(s, <<"f", "i", "r", "m", "a", ":">>, k)
        THEN tail
        ELSE [found |-> FALSE, group |-> <<>>]

\* GESCH_ADDR matched with its first character at position i
GeschAt(s, i) ==
    LET tail == TailGroup(s, i + 19, 0)
    IN  IF /\ StartsAtCI(s, <<"g", "e", "s", "c", "h">>, i)
           /\ i + 5 <= Len(s)
           /\ LowerCh(s[i + 5]) \in {"a", "a_uml"}
           /\ StartsAtCI(s, <<"f", "t", "s", "a", "n", "s", "c", "h", "r", "i", "f", "t", ":">>, i + 6)
        THEN tail
        ELSE [found |-> FALSE, group |-> <<>>]

\* pattern.search(s): the match at the leftmost position >= i that has one
SearchFrom(s, At(_, _), i) ==
    LET hits == {k \in i..Len(s) : At(s, k).found}
    IN  IF hits = {} THEN [found |-> FALSE, group |-> <<>>]
        ELSE At(s, CHOOSE k \in hits : \A h \in hits : k <= h)

Search(s, At(_, _)) == SearchFrom(s, At, 1)

\* re.sub(r"\s*(?:\n|$)", "", address) for an address that holds no line
\* break (the group of GESCH_ADDR never does): the blanks at its end go
TrimLineEnd(address) == SubSeq(address, 1, SkipSpacesBack(address, Len(address)))

\* [ln.strip() for ln in text.split("\n") if ln.strip()]
NonBlankLines(t) == SelectSeq(StrippedLines(t), LAMBDA ln : ln # <<>>)

\* the part of extract_from_text after normalize_text
ExtractNormalized(t, lines) ==
    IF Len(lines) < 2 THEN Raise("IndexError")
    ELSE LET words == SplitWords(lines[2])
             n == Len(words)
         IN  IF n < 2 THEN Raise("IndexError")
             ELSE LET reg_type == RegType(words[n - 1])
                      reg_number == KeepOnly(words[n], Digits)
                      firma == Search(t, FirmaAt)
                      gesch == Search(t, GeschAt)
                  IN  IF ~firma.found THEN extract_from_text_2nd_format(t)
                      ELSE IF ~gesch.found THEN extract_from_text_2nd_format(t)
                      ELSE CHOOSE out \in
                             {Return(Merge(
                                 (Lit("register_type") :> reg_type)
                                 @@ (Lit("register_number") :> reg_number)
                                 @@ (Lit("company_name") :> Strip(firma.group))
                                 @@ (Lit("address") :> addr),
                                 split_german_address(addr))) :
                              addr \in {replace_umlauts(Upper(TrimLineEnd(
                                            Strip(gesch.group))))}} : TRUE

extract_from_text(txt) ==
    CHOOSE out \in
        UNION {{ExtractNormalized(t, lines) : lines \in {NonBlankLines(t)}} :
                   t \in {normalize_text(txt)}} : TRUE

----------------------------------------------------------------------------
(* JSON values of the NorthData API (bpauto/providers/northdata.py).  A    *)
(* value carries its Python type; a dict is a function from keys to values.*)

Null == [t |-> "null", v |-> <<>>]

Str(s) == [t |-> "str", v |-> s]

Num(n) == [t |-> "num", v |-> n]

Dict(d) == [t |-> "dict", v |-> d]

List(l) == [t |-> "list", v |-> l]

\* bool(x)
Truthy(x) ==
    CASE x.t = "null" -> FALSE
      [] x.t = "str" -> x.v # <<>>
      [] x.t = "num" -> x.v # 0
      [] x.t = "dict" -> DOMAIN x.v # {}
      [] x.t = "list" -> x.v # <<>>

\* a or b
Or(a, b) == IF Truthy(a) THEN a ELSE b

\* d.get(k)
Get(d, k) == IF k \in DOMAIN d THEN d[k] ELSE Null

DigitChars == <<"0", "1", "2", "3", "4", "5", "6", "7", "8", "9">>

\* str(n) for an int n >= 0
RECURSIVE DecStr(_)
DecStr(n) ==
    IF n < 10 THEN <<DigitChars[n + 1]>>
    ELSE DecStr(n \div 10) \o <<DigitChars[(n % 10) + 1]>>

\* str(x) for a str or an int x
PyStr(x) ==
    IF x.t = "str" THEN x.v
    ELSE IF x.v < 0 THEN <<"-">> \o DecStr(-x.v)
    ELSE DecStr(x.v)

\* s.strip().casefold()
Fold(s) == Lower(Strip(s))

----------------------------------------------------------------------------
(* NorthDataProvider._extract_results, _candidate_from_entry, _best_match  *)

ResultKeys == <<"result", "results", "hits", "data">>

\* the entries of the first of the keys from ResultKeys[i] on whose value is a
\* list (the dicts among its items); without such a key, raw itself if it is
\* not empty
RECURSIVE ExtractResultsFrom(_, _)
ExtractResultsFrom(raw, i) ==
    IF i > Len(ResultKeys)
    THEN IF DOMAIN raw # {} THEN <<raw>> ELSE <<>>
    ELSE LET value == Get(raw, ResultKeys[i])
         IN  IF value.t = "list"
             THEN LET dicts == SelectSeq(value.v, LAMBDA entry : entry.t = "dict")
                  IN  [k \in 1..Len(dicts) |-> dicts[k].v]
             ELSE ExtractResultsFrom(raw, i + 1)

_extract_results(raw) == ExtractResultsFrom(raw, 1)

\* _normalise_name: None for None and for a blank name
_normalise_name(value) ==
    IF value.t = "null" THEN Null
    ELSE LET folded == Fold(PyStr(value))
         IN  IF folded = <<>> THEN Null ELSE Str(folded)

\* _float_score(keys): the first of the keys whose value is a number, else 0
RECURSIVE FloatScoreFrom(_, _, _)
FloatScoreFrom(entry, keys, i) ==
    IF i > Len(keys) THEN 0
    ELSE IF Get(entry, keys[i]).t = "num" THEN Get(entry, keys[i]).v
    ELSE FloatScoreFrom(entry, keys, i + 1)

_float_score(entry, keys) == FloatScoreFrom(entry, keys, 1)

\* the name of an entry: legalName, legal_name or name, itself a str or a
\* dict that holds the name
EntryName(entry) ==
    LET raw_name == Or(Get(entry, "legalName"), Or(Get(entry, "legal_name"), Get(entry, "name")))
    IN  IF raw_name.t = "dict"
        THEN Or(Get(raw_name.v, "name"), Get(raw_name.v, "legalName"))
        ELSE raw_name

\* entry.get("address") if it is a dict, else {}
AddressBlock(entry) ==
    IF Get(entry, "address").t = "dict" THEN Get(entry, "address").v ELSE EmptyDict

EntryZip(entry) ==
    LET top == Or(Get(entry, "postalCode"), Get(entry, "zip"))
    IN  IF Truthy(top) THEN top
        ELSE Or(Get(AddressBlock(entry), "postalCode"), Get(AddressBlock(entry), "zip"))

EntryCity(entry) ==
    LET top == Get(entry, "city")
    IN  IF Truthy(top) THEN top ELSE Get(AddressBlock(entry), "city")

\* a comparison that takes the query postal code as a prefix of the entry's
ZipMatchesByPrefix(entry, query_zip) ==
    /\ Truthy(query_zip)
    /\ Truthy(EntryZip(entry))
    /\ StartsAt(Strip(PyStr(EntryZip(entry))), Strip(PyStr(query_zip)), 1)

ZipMatches(entry, query_zip) ==
    /\ Truthy(query_zip)
    /\ Truthy(EntryZip(entry))
    /\ Strip(PyStr(EntryZip(entry))) = Strip(PyStr(query_zip))

CityMatches(entry, query_city) ==
    /\ Truthy(query_city)
    /\ Truthy(EntryCity(entry))
    /\ Fold(PyStr(EntryCity(entry))) = Fold(PyStr(query_city))

IsExactMatch(entry, query_name) ==
    LET query_name_norm == _normalise_name(query_name)
    IN  /\ Truthy(query_name_norm)
        /\ _normalise_name(EntryName(entry)) = query_name_norm

_candidate_from_entry(entry, query_name, query_zip, query_city, index) ==
    [index |-> index,
     payload |-> entry,
     is_exact_match |-> IsExactMatch(entry, query_name),
     zip_matches |-> ZipMatches(entry, query_zip),
     city_matches |-> CityMatches(entry, query_city),
     score |-> _float_score(entry, <<"score", "confidence", "matchScore">>)]

\* a key that prefers the later of two candidates of equal score
KeyGreaterLatest(a, b) ==
    \/ a.score > b.score
    \/ a.score = b.score /\ a.index > b.index

\* (a.score, -a.index) > (b.score, -b.index)
KeyGreater(a, b) ==
    \/ a.score > b.score
    \/ a.score = b.score /\ -a.index > -b.index

\* max(pool, key=...): the first element whose key no later one exceeds
RECURSIVE MaxFrom(_, _, _)
MaxFrom(pool, best, i) ==
    IF i > Len(pool) THEN best
    ELSE MaxFrom(pool, IF KeyGreater(pool[i], best) THEN pool[i] ELSE best, i + 1)

MaxByKey(pool) == MaxFrom(pool, pool[1], 2)

\* the filter is applied only if it leaves a candidate
FilterIfAny(candidates, Keep(_)) ==
    LET kept == SelectSeq(candidates, Keep)
    IN  IF kept # <<>> THEN kept ELSE candidates

\* a city step that filters nothing
CityFilterSkipped(candidates, city) == candidates

CityFilter(candidates, city) ==
    IF Truthy(city) THEN FilterIfAny(candidates, LAMBDA c : c.city_matches)
    ELSE candidates

ZipFilter(candidates, zip_code) ==
    IF Truthy(zip_code) THEN FilterIfAny(candidates, LAMBDA c : c.zip_matches)
    ELSE candidates

\* an exact-name step that filters nothing
ExactFilterSkipped(candidates) == candidates

ExactFilter(candidates) == FilterIfAny(candidates, LAMBDA c : c.is_exact_match)

Candidates(raw, name, zip_code, city) ==
    LET entries == _extract_results(raw)
    IN  [i \in 1..Len(entries) |->
            _candidate_from_entry(entries[i], name, zip_code, city, i - 1)]

\* the pool the best candidate is taken from
FinalPool(raw, name, zip_code, city) ==
    ExactFilter(ZipFilter(CityFilter(Candidates(raw, name, zip_code, city), city), zip_code))

\* a selection that takes the response itself when it holds no entry
_best_match_fabricating(raw, name, zip_code, city) ==
    IF Candidates(raw, name, zip_code, city) = <<>> THEN Dict(raw)
    ELSE Dict(MaxByKey(FinalPool(raw, name, zip_code, city)).payload)

\* the payload of the best candidate, or None
_best_match(raw, name, zip_code, city) ==
    IF Candidates(raw, name, zip_code, city) = <<>> THEN Null
    ELSE Dict(MaxByKey(FinalPool(raw, name, zip_code, city)).payload)

----------------------------------------------------------------------------
(* NorthDataProvider.fetch, from the response of _query_api on.  A         *)
(* CompanyRecord is a function from its keys to values; notes is kept as   *)
(* the list of its parts (the code joins them with ", ").                  *)

NotePart(kind, value) == [kind |-> kind, value |-> value]

\* CompanyRecord(legal_name=name, notes="no result", source="northdata_api")
NoResultRecord(name) ==
    [legal_name |-> PyStr(name),
     notes |-> <<NotePart("no result", <<>>)>>,
     source |-> Lit("northdata_api")]

\* record[key] = value
Put(record, key, value) == (key :> value) @@ record

\* record[key] = str(value) if value is truthy
PutIfTruthy(record, key, value) ==
    IF Truthy(value) THEN Put(record, key, PyStr(value)) ELSE record

LegalName(payload, name) ==
    LET raw_name == Or(Get(payload, "legalName"),
                       Or(Get(payload, "legal_name"), Or(Get(payload, "name"), name)))
    IN  IF raw_name.t = "dict"
        THEN Or(Get(raw_name.v, "name"), Or(Get(raw_name.v, "legalName"), name))
        ELSE raw_name

\* the register number of the payload
RegNo(payload) ==
    LET info == Get(payload, "register")
    IN  IF info.t = "dict"
        THEN Or(Get(info.v, "number"), Or(Get(info.v, "registerNumber"), Get(info.v, "id")))
        ELSE Get(payload, "registerNumber")

\* the register type of the payload; inside a register dict that names no
\* type it is the first word of the number
RegTypeOf(payload) ==
    LET info == Get(payload, "register")
        named == Or(Get(info.v, "type"), Or(Get(info.v, "registerType"), Get(info.v, "category")))
        reg_no == RegNo(payload)
    IN  IF info.t = "dict"
        THEN IF ~Truthy(named) /\ reg_no.t = "str"
             THEN IF Strip(reg_no.v) # <<>> THEN Str(SplitWords(reg_no.v)[1]) ELSE Null
             ELSE named
        ELSE Get(payload, "registerType")

\* record["register_no"]: the number without a leading register type
RegNoField(reg_type, reg_no) ==
    LET no == Strip(PyStr(reg_no))
        ty == Strip(PyStr(reg_type))
        clean == Strip(From(no, Len(ty) + 1))
    IN  IF Truthy(reg_type) /\ reg_no.t = "str" /\ StartsAt(Upper(no), Upper(ty), 1)
        THEN IF clean # <<>> THEN clean ELSE no
        ELSE PyStr(reg_no)

_normalise_address(payload) ==
    LET address_raw == Get(payload, "address")
    IN  IF address_raw.t = "dict"
        THEN [street |-> Or(Get(address_raw.v, "street"), Get(address_raw.v, "streetName")),
              zip |-> Or(Get(address_raw.v, "zip"), Get(address_raw.v, "postalCode")),
              city |-> Get(address_raw.v, "city"),
              country |-> Get(address_raw.v, "country")]
        ELSE [street |-> Get(payload, "street"),
              zip |-> Or(Get(payload, "zip"), Get(payload, "postalCode")),
              city |-> Get(payload, "city"),
              country |-> Get(payload, "country")]

PdfUrl(payload) ==
    Or(Get(payload, "officialExtractUrl"),
       Or(Get(payload, "officialExtract"), Or(Get(payload, "pdf"), Get(payload, "pdfUrl"))))

\* the zip the notes compare with the query: the address block is asked for
\* postalCode only
PayloadZip(payload) ==
    Or(Get(payload, "postalCode"),
       Or(Get(payload, "zip"), Get(AddressBlock(payload), "postalCode")))

\* the first of score, confidence, matchScore that is a number
ScoreNote(payload) ==
    LET keys == <<"score", "confidence", "matchScore">>
        nums == SelectSeq(keys, LAMBDA k : Get(payload, k).t = "num")
    IN  IF nums = <<>> THEN <<>>
        ELSE <<NotePart("confidence", PyStr(Get(payload, nums[1])))>>

ZipNote(payload, zip_code) ==
    IF Truthy(zip_code) /\ Truthy(PayloadZip(payload))
    THEN IF Strip(PyStr(PayloadZip(payload))) = Strip(PyStr(zip_code))
         THEN <<NotePart("zip_matched", PyStr(PayloadZip(payload)))>>
         ELSE <<NotePart("zip_mismatched", PyStr(PayloadZip(payload)))>>
    ELSE <<>>

Notes(payload, zip_code) ==
    LET parts == ScoreNote(payload) \o ZipNote(payload, zip_code)
    IN  IF parts = <<>> THEN <<NotePart("fetched", <<>>)>> ELSE parts

\* the record built from the payload of the best match (download_ad is off,
\* so pdf_path is the URL of the extract)
RecordOf(payload, name, zip_code) ==
    LET r0 == [source |-> Lit("northdata_api"), legal_name |-> PyStr(LegalName(payload, name))]
        reg_type == RegTypeOf(payload)
        reg_no == RegNo(payload)
        r1 == PutIfTruthy(r0, "register_type", reg_type)
        r2 == IF Truthy(reg_no) THEN Put(r1, "register_no", RegNoField(reg_type, reg_no)) ELSE r1
        address == _normalise_address(payload)
        r3 == PutIfTruthy(r2, "street", address.street)
        r4 == PutIfTruthy(r3, "zip", address.zip)
        r5 == PutIfTruthy(r4, "city", address.city)
        r6 == PutIfTruthy(r5, "country", address.country)
        pdf_url == PdfUrl(payload)
        r7 == IF pdf_url.t = "str" /\ pdf_url.v # <<>> THEN Put(r6, "pdf_path", pdf_url.v) ELSE r6
    IN  Put(r7, "notes", Notes(payload, zip_code))

\* fetch, given the response raw of _query_api
fetch(raw, name, zip_code, city) ==
    LET payload == _best_match(raw, name, zip_code, city)
    IN  IF DOMAIN raw = {} THEN NoResultRecord(name)
        ELSE IF ~Truthy(payload) THEN NoResultRecord(name)
        ELSE RecordOf(payload.v, name, zip_code)

----------------------------------------------------------------------------
(* PlayHandelsregister.looks_like_same_zip.  text and plz are None or a    *)
(* str (Null, Str).                                                        *)

\* re \b before position i of s: of the characters at i - 1 and at i, one is
\* a word character and the other is not (or is beyond the end of s)
WordBoundary(s, i) ==
    LET before == i > 1 /\ IsWord(s[i - 1])
        after == i <= Len(s) /\ IsWord(s[i])
    IN  before # after

\* re.compile(rf"\b{re.escape(plz)}\b").search(text) for a plz that is not ""
SearchWholeWord(s, plz) ==
    \E i \in 1..Len(s) :
        /\ StartsAt(s, plz, i)
        /\ WordBoundary(s, i)
        /\ WordBoundary(s, i + Len(plz))

looks_like_same_zip(t, plz) ==
    IF ~Truthy(t) \/ ~Truthy(plz) THEN FALSE
    ELSE SearchWholeWord(t.v, plz.v)

----------------------------------------------------------------------------
(* Bounded inputs                                                          *)

MaxTextLen == 5

NormChars == {"-", NL, CR, " ", TAB, "a", "1"}

RECURSIVE StringsUpTo(_, _)
StringsUpTo(chars, n) ==
    IF n = 0 THEN {<<>>}
    ELSE LET shorter == StringsUpTo(chars, n - 1)
         IN  shorter \cup {Append(s, c) : s \in {t \in shorter : Len(t) = n - 1}, c \in chars}

----------------------------------------------------------------------------
(* Specification SpecNormalize: normalize_text applied to a text, then to  *)
(* its own output.                                                         *)

\* the variables of the other specifications, at rest
NormalizeIdle == text = <<>> /\ once = <<>> /\ twice = <<>>

ExtractIdle == doc = <<>> /\ result = Raise("none")

MatchIdle ==
    /\ api_raw = EmptyDict
    /\ arg_name = Null
    /\ arg_zip = Null
    /\ arg_city = Null
    /\ matched = Null
    /\ fetched = EmptyDict

ZipIdle == zip_text = Null /\ zip_plz = Null /\ same_zip = FALSE

BatchIdle ==
    /\ jobs = <<>>
    /\ download_ad = FALSE
    /\ job_i = 1
    /\ sheet = <<>>
    /\ downloads = <<>>
    /\ seen = <<>>
    /\ counter = 0
    /\ waits = 0

SplitIdle == split_addr = <<>> /\ split_parts = EmptyDict

CombineIdle == name_parts = <<>> /\ name_out = Null

CliIdle ==
    /\ cli_rows = <<>>
    /\ dry_run = FALSE
    /\ cli_i = 1
    /\ fetch_calls = <<>>
    /\ processed = 0
    /\ cli_hits = 0
    /\ no_result = 0
    /\ errors = 0
    /\ written = <<>>
    /\ saved = FALSE
    /\ exit_code = -1

RequestIdle ==
    /\ query_args = EmptyDict
    /\ sent_params = <<>>
    /\ replies = <<>>
    /\ query_raw = Return(EmptyDict)
    /\ fetch_result = Return(EmptyDict)

WorkbookIdle ==
    /\ wb_file = EmptyDict
    /\ wb_cache = EmptyDict
    /\ wb_args = EmptyDict
    /\ wb_rows = Return(<<>>)
    /\ wb_writes = <<>>
    /\ wb_saved = EmptyDict

TimerIdle == window = 0 /\ wait_at = <<>>

InitNormalize ==
    /\ pc = "start"
    /\ text \in StringsUpTo(NormChars, MaxTextLen)
    /\ once = <<>>
    /\ twice = <<>>
    /\ ExtractIdle
    /\ MatchIdle
    /\ ZipIdle
    /\ BatchIdle
    /\ SplitIdle
    /\ CombineIdle
    /\ CliIdle
    /\ RequestIdle
    /\ WorkbookIdle
    /\ TimerIdle

Normalize ==
    /\ pc = "start"
    /\ once' = normalize_text(text)
    /\ pc' = "once"
    /\ UNCHANGED <<text, twice, extractVars, matchVars, zipVars, batchVars,
                   splitVars, combineVars,
                   cliVars, requestVars, workbookVars, timerVars>>

NormalizeAgain ==
    /\ pc = "once"
    /\ twice' = normalize_text(once)
    /\ pc' = "twice"
    /\ UNCHANGED <<text, once, extractVars, matchVars, zipVars, batchVars,
                   splitVars, combineVars,
                   cliVars, requestVars, workbookVars, timerVars>>

NextNormalize == Normalize \/ NormalizeAgain

SpecNormalize == InitNormalize /\ [][NextNormalize]_vars

\* C3: normalize_text is idempotent: normalising its own output changes nothing.
C3_Idempotent == pc = "twice" => twice = once

\* s from position i on, without every hyphen and line break that a letter
\* follows
RECURSIVE JoinBeforeLetters(_, _)
JoinBeforeLetters(s, i) ==
    IF i > Len(s) THEN <<>>
    ELSE IF /\ s[i] = "-"
            /\ i + 2 <= Len(s)
            /\ s[i + 1] = NL
            /\ s[i + 2] \in Letters
         THEN JoinBeforeLetters(s, i + 2)
         ELSE <<s[i]>> \o JoinBeforeLetters(s, i + 1)

\* the text holds hyphens, line feeds, letters and digits only, so that
\* normalize_text can change it by joining at a hyphen only
OnlyHyphenation == \A i \in 1..Len(text) : text[i] \in {"-", NL, "a", "1"}

\* C19: normalize_text removes a hyphen followed by a line break when a word
\* character follows the break, and leaves hyphen and line break in place
\* when what follows is no word character: a number, punctuation, whitespace
\* or the end of the text.
C19_HyphenBeforeWordOnly ==
    (pc = "once" /\ OnlyHyphenation) => once = JoinBeforeLetters(text, 1)

----------------------------------------------------------------------------
(* Specification SpecExtract: extract_from_text or                         *)
(* extract_from_text_2nd_format applied to a document text.  The texts are *)
(* a header of up to four lines followed by up to MaxBodyLines lines.      *)

\* a line of one word: Abruf
LineTitle ==
    <<"A", "b", "r", "u", "f">>

\* a Layout A header: register type and number: HRB 12
LineHrb ==
    <<"H", "R", "B", " ", "1", "2">>

\* a Layout B header whose number has two words: VR 601 SE
LineVrSe ==
    <<"V", "R", " ", "6", "0", "1", " ", "S", "E">>

\* a Layout B header whose number has one word: VR 601
LineVr ==
    <<"V", "R", " ", "6", "0", "1">>

\* the Layout B name marker: 2. a) Name
Line2a ==
    <<"2", ".", " ", "a", ")", " ", "N", "a", "m", "e">>

\* a name or a city: ESSEN
LineEssen ==
    <<"E", "S", "S", "E", "N">>

\* the Layout B seat marker: b) Sitz
LineB ==
    <<"b", ")", " ", "S", "i", "t", "z">>

\* a street address: WEG 1, 45128 ESSEN
LineAddr ==
    <<"W", "E", "G", " ", "1", ",", " ", "4", "5", "1", "2", "8", " ", "E",
      "S", "S", "E", "N">>

\* the start of section 3: 3. Vorstand
Line3 ==
    <<"3", ".", " ", "V", "o", "r", "s", "t", "a", "n", "d">>

\* the Layout A name marker: 2. a) Firma: ACME
LineFirma ==
    <<"2", ".", " ", "a", ")", " ", "F", "i", "r", "m", "a", ":", " ", "A",
      "C", "M", "E">>

\* the Layout A address marker: Gescha"ftsanschrift: WEG 1, 45128 ESSEN
LineGesch ==
    <<"G", "e", "s", "c", "h", "a_uml", "f", "t", "s", "a", "n", "s", "c",
      "h", "r", "i", "f", "t", ":", " ", "W", "E", "G", " ", "1", ",", " ",
      "4", "5", "1", "2", "8", " ", "E", "S", "S", "E", "N">>

MaxBodyLines == 4

Headers ==
    { <<>>,
      <<LineTitle>>,
      <<LineTitle, LineTitle>>,
      <<LineTitle, LineHrb>>,
      <<LineTitle, LineHrb, LineTitle, LineVrSe>>,
      <<LineTitle, LineHrb, LineTitle, LineVr>> }

BodyLines == {Line2a, LineEssen, LineB, LineAddr, Line3, LineFirma, LineGesch}

Documents ==
    {Join(h \o b, <<NL>>) : h \in Headers, b \in StringsUpTo(BodyLines, MaxBodyLines)}

InitExtract ==
    /\ pc = "start"
    /\ doc \in Documents
    /\ result = Raise("none")
    /\ NormalizeIdle
    /\ MatchIdle
    /\ ZipIdle
    /\ BatchIdle
    /\ SplitIdle
    /\ CombineIdle
    /\ CliIdle
    /\ RequestIdle
    /\ WorkbookIdle
    /\ TimerIdle

\* info = extract_from_text(full_text)
ExtractFromText ==
    /\ pc = "start"
    /\ result' = extract_from_text(doc)
    /\ pc' = "extracted"
    /\ UNCHANGED <<doc, normalizeVars, matchVars, zipVars, batchVars,
                   splitVars, combineVars,
                   cliVars, requestVars, workbookVars, timerVars>>

\* extract_from_text_2nd_format(text) called on its own
ExtractSecondFormat ==
    /\ pc = "start"
    /\ result' = extract_from_text_2nd_format(doc)
    /\ pc' = "extracted_2nd"
    /\ UNCHANGED <<doc, normalizeVars, matchVars, zipVars, batchVars,
                   splitVars, combineVars,
                   cliVars, requestVars, workbookVars, timerVars>>

NextExtract == ExtractFromText \/ ExtractSecondFormat

SpecExtract == InitExtract /\ [][NextExtract]_vars

\* the lines extract_from_text_2nd_format looks for its markers in
DocLines == StrippedLines(normalize_text(doc))

\* a line starting with "2. a)", or a "b)" line, cannot be located
MarkerMissing ==
    \/ \A i \in 1..Len(DocLines) : ~IsLine2a(DocLines[i])
    \/ \A i \in 1..Len(DocLines) : ~IsLineB(DocLines[i])

Sentinel == (Lit("register_type") :> Lit("unexpected Format"))

\* C1: when extract_from_text_2nd_format cannot locate the "2. a)" line or a
\* "b)" line, the mapping it returns has exactly the key 'register_type', with
\* the value 'unexpected Format'.
C1_SentinelOnMissingMarker ==
    (pc = "extracted_2nd" /\ MarkerMissing /\ result.exc = "none")
        => result.val = Sentinel

\* C2: extract_from_text returns a result for every input text and never
\* raises.
C2_NeverRaises == pc = "extracted" => result.exc = "none"

\* the tokens of the header line (the fourth line) of Layout B
HeaderWords == IF Len(DocLines) < 4 THEN <<>> ELSE SplitWords(DocLines[4])

\* the second-to-last header token consists of decimal digits only
SecondToLastNumeric ==
    LET n == Len(HeaderWords)
    IN  /\ n >= 2
        /\ HeaderWords[n - 1] # <<>>
        /\ \A i \in 1..Len(HeaderWords[n - 1]) : IsDigit(HeaderWords[n - 1][i])

\* the result was built from register type ty and register number nr
HeaderGives(ty, nr) ==
    /\ result.exc = "none"
    /\ \/ result.val = UnexpectedFormat(ty)
       \/ /\ Lit("register_number") \in DOMAIN result.val
          /\ result.val[Lit("register_type")] = ty
          /\ result.val[Lit("register_number")] = nr

\* C11: on the header line of Layout B, a purely numeric second-to-last token
\* makes register_number the last two tokens joined by one space and takes
\* register_type from the third-to-last token; a second-to-last token that is
\* not numeric (as in 'VR 601') gives register_type and the last token is
\* register_number.
C11_HeaderTokens ==
    LET n == Len(HeaderWords)
    IN  (pc = "extracted_2nd" /\ n >= 2 /\ ~MarkerMissing
            /\ result.exc # "IndexError")
        => IF SecondToLastNumeric
           THEN n >= 3 /\ HeaderGives(RegType(HeaderWords[n - 2]),
                                      HeaderWords[n - 1] \o <<" ">> \o HeaderWords[n])
           ELSE HeaderGives(RegType(HeaderWords[n - 1]), HeaderWords[n])

\* the index of the first "b)" line among lines (0 if there is none)
FirstBLine(lines) ==
    LET at == {i \in 1..Len(lines) : IsLineB(lines[i])}
    IN  IF at = {} THEN 0 ELSE CHOOSE i \in at : \A j \in at : i <= j

AddressKeys ==
    {Lit("street"), Lit("house_number"), Lit("postal_code"), Lit("city")}

\* extract_from_text_2nd_format found its markers and returned
ReturnedLayoutB ==
    /\ pc = "extracted_2nd"
    /\ result.exc = "none"
    /\ Lit("register_number") \in DOMAIN result.val

\* C14: in a Layout B result, when the line two positions below the first
\* "b)" line begins with "3." the city is the line directly below "b)" and
\* there is no street, house_number or postal_code; otherwise the four
\* address fields are those split_german_address gives for the upper-cased,
\* transliterated line two positions below "b)".
C14_CityOnlyOrSplit ==
    ReturnedLayoutB
    => \E lines \in {DocLines} : \E b \in {FirstBLine(lines)} :
        IF StartsAt(lines[b + 2], <<"3", ".">>, 1)
        THEN /\ result.val[Lit("city")] = lines[b + 1]
             /\ DOMAIN result.val \cap AddressKeys = {Lit("city")}
        ELSE \E parts \in {split_german_address(
                               replace_umlauts(Upper(lines[b + 2])))} :
                \A k \in AddressKeys :
                    k \in DOMAIN result.val /\ result.val[k] = parts[k]

\* a Layout B text with a city and no street below "b)" has been extracted
C14_Witness ==
    /\ ReturnedLayoutB
    /\ result.val[Lit("city")] = LineEssen
    /\ \E lines \in {DocLines} :
          StartsAt(lines[FirstBLine(lines) + 2], <<"3", ".">>, 1)

----------------------------------------------------------------------------
(* Specification SpecLayoutA: extract_from_text or                         *)
(* extract_from_text_2nd_format applied to a text whose lines after the    *)
(* header are up to MaxMarkerLines lines that carry, or lack, the Layout A *)
(* markers.                                                                *)

\* the Layout A name marker with nothing after it: 2. a) Firma:
LineFirmaBare ==
    <<"2", ".", " ", "a", ")", " ", "F", "i", "r", "m", "a", ":">>

\* the Layout A address marker with a blank after it: Gescha"ftsanschrift:
LineGeschBare ==
    <<"G", "e", "s", "c", "h", "a_uml", "f", "t", "s", "a", "n", "s", "c",
      "h", "r", "i", "f", "t", ":", " ">>

\* the address marker spelt with the digraph:
\* Geschaeftsanschrift: WEG 1, 45128 ESSEN
LineGeschAe ==
    <<"G", "e", "s", "c", "h", "a", "e", "f", "t", "s", "a", "n", "s", "c",
      "h", "r", "i", "f", "t", ":", " ", "W", "E", "G", " ", "1", ",", " ",
      "4", "5", "1", "2", "8", " ", "E", "S", "S", "E", "N">>

MaxMarkerLines == 3

MarkerHeaders == { <<LineTitle>>, <<LineTitle, LineHrb>> }

MarkerLines ==
    {LineFirma, LineFirmaBare, LineGesch, LineGeschBare, LineGeschAe,
     LineEssen, Line2a, LineB}

MarkerDocuments ==
    {Join(h \o b, <<NL>>) :
        h \in MarkerHeaders, b \in StringsUpTo(MarkerLines, MaxMarkerLines)}

InitLayoutA ==
    /\ pc = "start"
    /\ doc \in MarkerDocuments
    /\ result = Raise("none")
    /\ NormalizeIdle
    /\ MatchIdle
    /\ ZipIdle
    /\ BatchIdle
    /\ SplitIdle
    /\ CombineIdle
    /\ CliIdle
    /\ RequestIdle
    /\ WorkbookIdle
    /\ TimerIdle

SpecLayoutA == InitLayoutA /\ [][NextExtract]_vars

\* the text extract_from_text searches for its markers
DocText == normalize_text(doc)

\* s holds the literal lit, whatever the case of its letters
Holds(s, lit) == \E i \in 1..Len(s) : StartsAtCI(s, lit, i)

\* the marker "2. a) Firma:" is in the text
HasFirmaMarker == Holds(DocText, LineFirmaBare)

\* the marker of the address is in the text, in either spelling
HasGeschMarker ==
    \/ Holds(DocText, SubSeq(LineGeschBare, 1, 19))
    \/ Holds(DocText, SubSeq(LineGeschAe, 1, 20))

LayoutAKeys ==
    {Lit("register_type"), Lit("register_number"), Lit("company_name"),
     Lit("address"), Lit("street"), Lit("house_number"), Lit("postal_code"),
     Lit("city")}

\* the result is one of Layout A: all eight fields, the register type and
\* number taken from the second non-blank line
IsLayoutAResult ==
    LET lines == NonBlankLines(DocText)
        words == IF Len(lines) < 2 THEN <<>> ELSE SplitWords(lines[2])
        n == Len(words)
    IN  /\ result.exc = "none"
        /\ DOMAIN result.val = LayoutAKeys
        /\ n >= 2
        /\ result.val[Lit("register_type")] = RegType(words[n - 1])
        /\ result.val[Lit("register_number")] = KeepOnly(words[n], Digits)

\* C12: extract_from_text returns a Layout A result exactly when the
\* "2. a) Firma:" marker and the address marker are both in the text; when
\* one of them is absent its result is that of extract_from_text_2nd_format
\* on the same text, and it is the sentinel when the markers of Layout B are
\* absent as well.
C12_DispatchOrder ==
    pc = "extracted"
    => IF HasFirmaMarker /\ HasGeschMarker
       THEN IsLayoutAResult
       ELSE /\ result = extract_from_text_2nd_format(doc)
            /\ MarkerMissing => result = Return(Sentinel)

\* the first position of s at which the literal lit starts, whatever the
\* case of its letters (0 if there is none)
FirstAt(s, lit) ==
    LET at == {i \in 1..Len(s) : StartsAtCI(s, lit, i)}
    IN  IF at = {} THEN 0 ELSE CHOOSE i \in at : \A j \in at : i <= j

\* what follows position p - 1 on the line of s that holds it
RestOfLine(s, p) == SubSeq(s, p, EndOfLine(s, p) - 1)

\* the text after "Firma:" on the line of the first "2. a) Firma:" marker
AfterFirma == RestOfLine(DocText, FirstAt(DocText, LineFirmaBare) + 12)

\* the text after the address marker on the line of the first such marker
AfterGesch ==
    RestOfLine(DocText, FirstAt(DocText, SubSeq(LineGeschBare, 1, 19)) + 19)

\* extract_from_text found both FIRMA_LINE and GESCH_ADDR and returned
ReturnedLayoutA ==
    /\ pc = "extracted"
    /\ result.exc = "none"
    /\ Search(DocText, FirmaAt).found
    /\ Search(DocText, GeschAt).found

\* C13: in a Layout A result company_name is the text after "Firma:" on the
\* line of the "2. a) Firma:" marker, and nothing of a following line, also
\* when only blanks follow "Firma:" on that line; the address is in the same
\* way the text after the address marker on its line.
C13_SameLineOnly ==
    ReturnedLayoutA
    => /\ result.val[Lit("company_name")] = Strip(AfterFirma)
       /\ result.val[Lit("address")] = replace_umlauts(Upper(Strip(AfterGesch)))

----------------------------------------------------------------------------
(* Specification SpecSplit: split_german_address applied to an address.    *)
(* The addresses are a street, a house number of up to MaxHouseTokens      *)
(* tokens, a comma or none, and a right segment of up to MaxRightTokens    *)
(* tokens.                                                                 *)

Musterstr == <<"M", "U", "S", "T", "E", "R", "S", "T", "R">>

Muenchen == <<"M", "U", "E", "N", "C", "H", "E", "N">>

Code80331 == <<"8", "0", "3", "3", "1">>

Code1010 == <<"1", "0", "1", "0">>

MaxHouseTokens == 5

MaxRightTokens == 4

Streets == {<<>>, Musterstr, Musterstr \o <<" ">>}

HouseTokens == {<<"1", "2">>, <<"A">>, <<" ">>, <<TAB>>, <<"-">>}

RightTokens ==
    {Code80331, Code1010, <<"1">>, Muenchen, <<" ">>, <<NL>>, <<",">>}

\* the concatenations of up to n tokens
TokenStrings(tokens, n) == {Join(b, <<>>) : b \in StringsUpTo(tokens, n)}

LeftSegments ==
    {st \o h : st \in Streets, h \in TokenStrings(HouseTokens, MaxHouseTokens)}

RightSegments == TokenStrings(RightTokens, MaxRightTokens)

\* 12A
House12A == <<"1", "2", "A">>

\* 80331 MUENCHEN, after a blank
RightMuenchen == <<" ">> \o Code80331 \o <<" ">> \o Muenchen

Commas == {<<>>, <<",">>}

Addresses ==
    {l \o c \o r : l \in LeftSegments, c \in Commas, r \in {<<>>, RightMuenchen}}
    \cup {l \o c \o r :
            l \in {<<>>, Musterstr, Musterstr \o <<" ">> \o House12A},
            c \in Commas, r \in RightSegments}

InitSplit ==
    /\ pc = "start"
    /\ split_addr \in Addresses
    /\ split_parts = EmptyDict
    /\ NormalizeIdle
    /\ ExtractIdle
    /\ MatchIdle
    /\ ZipIdle
    /\ BatchIdle
    /\ CombineIdle
    /\ CliIdle
    /\ RequestIdle
    /\ WorkbookIdle
    /\ TimerIdle

Split ==
    /\ pc = "start"
    /\ split_parts' = split_german_address(split_addr)
    /\ pc' = "split"
    /\ UNCHANGED <<split_addr, normalizeVars, extractVars, matchVars, zipVars,
                   batchVars, combineVars,
                   cliVars, requestVars, workbookVars, timerVars>>

NextSplit == Split

SpecSplit == InitSplit /\ [][NextSplit]_vars

\* the address holds a comma
HasComma == \E i \in 1..Len(split_addr) : split_addr[i] = ","

\* the position of the first comma of the address
FirstComma == CHOOSE i \in 1..Len(split_addr) :
                  split_addr[i] = "," /\ \A j \in 1..(i - 1) : split_addr[j] # ","

\* the trimmed text before the first comma (the whole address if none)
LeftSegment ==
    Strip(IF HasComma THEN SubSeq(split_addr, 1, FirstComma - 1) ELSE split_addr)

\* the trimmed text after the first comma (empty if there is none)
RightSegment ==
    IF HasComma THEN Strip(From(split_addr, FirstComma + 1)) ELSE <<>>

\* s holds a decimal digit
HasDigit(s) == \E i \in 1..Len(s) : IsDigit(s[i])

\* the position of the first decimal digit of s
FirstDigit(s) ==
    CHOOSE i \in 1..Len(s) : IsDigit(s[i]) /\ \A j \in 1..(i - 1) : ~IsDigit(s[j])

\* the trimmed text of the left segment from its first digit on
RawHouse ==
    IF HasDigit(LeftSegment)
    THEN Strip(From(LeftSegment, FirstDigit(LeftSegment)))
    ELSE <<>>

\* the trimmed text of the left segment before its first digit
RawStreet ==
    IF HasDigit(LeftSegment)
    THEN Strip(SubSeq(LeftSegment, 1, FirstDigit(LeftSegment) - 1))
    ELSE LeftSegment

\* s starts with exactly n digits, followed by whitespace and a city
StartsWithCode(s, n) ==
    /\ Len(s) >= n + 2
    /\ \A i \in 1..n : IsDigit(s[i])
    /\ IsSpace(s[n + 1])
    /\ \E i \in (n + 2)..Len(s) : ~IsSpace(s[i])

AllDigits(s) == \A i \in 1..Len(s) : IsDigit(s[i])

\* C15: the postal_code of split_german_address is empty or 4 or 5 decimal
\* digits; it is the 5-digit code the right segment starts with, else the
\* 4-digit code it starts with; when the right segment starts with neither,
\* followed by whitespace and a city, postal_code is empty and city is the
\* whole right segment.
C15_PostalCode ==
    pc = "split"
    => LET plz == split_parts[Lit("postal_code")]
       IN  /\ plz = <<>> \/ (Len(plz) \in {4, 5} /\ AllDigits(plz))
           /\ StartsWithCode(RightSegment, 5) => plz = SubSeq(RightSegment, 1, 5)
           /\ (~StartsWithCode(RightSegment, 5) /\ StartsWithCode(RightSegment, 4))
                  => plz = SubSeq(RightSegment, 1, 4)
           /\ (~StartsWithCode(RightSegment, 5) /\ ~StartsWithCode(RightSegment, 4))
                  => plz = <<>> /\ split_parts[Lit("city")] = RightSegment

\* 'MUSTERSTR, 1010 MUENCHEN' has been split: the 4-digit code is taken
C15_Witness ==
    /\ pc = "split"
    /\ split_addr = Musterstr \o <<",", " ">> \o Code1010 \o <<" ">> \o Muenchen
    /\ split_parts[Lit("postal_code")] = Code1010
    /\ split_parts[Lit("city")] = Muenchen

\* s is digits, whitespace, one letter
DigitsBlanksLetter(s) ==
    \E d \in 1..Len(s) :
        /\ \A i \in 1..d : IsDigit(s[i])
        /\ d + 2 <= Len(s)
        /\ \A i \in (d + 1)..(Len(s) - 1) : IsSpace(s[i])
        /\ s[Len(s)] \in AsciiLetters

\* C16: a house number written as digits, whitespace, one letter is returned
\* in the contiguous form, with no whitespace left in it; a house number of
\* any other shape is returned unchanged.
C16_HouseNumber ==
    pc = "split"
    => LET house == split_parts[Lit("house_number")]
       IN  IF DigitsBlanksLetter(RawHouse)
           THEN house = SelectSeq(RawHouse, LAMBDA c : ~IsSpace(c))
           ELSE house = RawHouse

\* s starts with a run of exactly five digits
FiveDigitCode(s) ==
    /\ Len(s) >= 5
    /\ \A i \in 1..5 : IsDigit(s[i])
    /\ Len(s) = 5 \/ ~IsDigit(s[6])

\* C17 as stated: for every address with a comma and a 5-digit code after
\* it, street is the trimmed text before the first digit of the text before
\* the first comma, house_number the trimmed text from that digit to the
\* comma, postal_code the 5 digits and city the trimmed rest.
C17_FirstCommaFiveDigits ==
    (pc = "split" /\ HasComma /\ FiveDigitCode(RightSegment))
    => /\ split_parts[Lit("street")] = RawStreet
       /\ split_parts[Lit("house_number")] = RawHouse
       /\ split_parts[Lit("postal_code")] = SubSeq(RightSegment, 1, 5)
       /\ split_parts[Lit("city")] = Strip(From(RightSegment, 6))

\* the house number as returned: without its spaces when it is digits,
\* whitespace, one letter
ReturnedHouse ==
    IF DigitsBlanksLetter(RawHouse)
    THEN SelectSeq(RawHouse, LAMBDA c : c # " ")
    ELSE RawHouse

\* the trimmed text after the 5-digit code, up to the first line break
CityAfterCode ==
    LET rest == Strip(From(RightSegment, 6))
    IN  Strip(SubSeq(rest, 1, Find(rest, NL, 1) - 1))

\* C17: for every address with a comma whose text after the first comma
\* starts with five digits, whitespace and a city, street is the trimmed text
\* before the first digit of the text before the first comma, house_number
\* the trimmed text from that digit to the comma (its spaces removed when it
\* is digits, whitespace, one letter), postal_code the 5 digits and city the
\* trimmed text after them up to the first line break.
C17_FirstCommaCodeAndCity ==
    (pc = "split" /\ HasComma /\ StartsWithCode(RightSegment, 5))
    => /\ split_parts[Lit("street")] = RawStreet
       /\ split_parts[Lit("house_number")] = ReturnedHouse
       /\ split_parts[Lit("postal_code")] = SubSeq(RightSegment, 1, 5)
       /\ split_parts[Lit("city")] = CityAfterCode

\* 'MUSTERSTR 12A, 80331 MUENCHEN' has been split
C17_Witness ==
    /\ pc = "split"
    /\ split_addr = Musterstr \o <<" ">> \o House12A \o <<",">> \o RightMuenchen
    /\ split_parts[Lit("street")] = Musterstr
    /\ split_parts[Lit("house_number")] = House12A
    /\ split_parts[Lit("postal_code")] = Code80331
    /\ split_parts[Lit("city")] = Muenchen

\* the three fields other than street are empty
OnlyStreet ==
    /\ split_parts[Lit("house_number")] = <<>>
    /\ split_parts[Lit("postal_code")] = <<>>
    /\ split_parts[Lit("city")] = <<>>

\* C18 as stated: split_german_address returns all four fields for every
\* address; without a comma postal_code and city are empty; an address with
\* neither comma nor digit gives street equal to the whole string and the
\* three other fields empty.
C18_TotalWholeString ==
    pc = "split"
    => /\ DOMAIN split_parts = AddressKeys
       /\ ~HasComma => /\ split_parts[Lit("postal_code")] = <<>>
                       /\ split_parts[Lit("city")] = <<>>
       /\ (~HasComma /\ ~HasDigit(split_addr))
              => split_parts[Lit("street")] = split_addr /\ OnlyStreet

\* C18: split_german_address returns all four fields for every address;
\* without a comma postal_code and city are empty; an address with neither
\* comma nor digit gives street equal to the trimmed string and the three
\* other fields empty.
C18_TotalTrimmedString ==
    pc = "split"
    => /\ DOMAIN split_parts = AddressKeys
       /\ ~HasComma => /\ split_parts[Lit("postal_code")] = <<>>
                       /\ split_parts[Lit("city")] = <<>>
       /\ (~HasComma /\ ~HasDigit(split_addr))
              => split_parts[Lit("street")] = Strip(split_addr) /\ OnlyStreet

\* 'MUSTERSTR ', with neither comma nor digit, has been split
C18_Witness ==
    /\ pc = "split"
    /\ split_addr = Musterstr \o <<" ">>
    /\ split_parts[Lit("street")] = Musterstr
    /\ OnlyStreet

----------------------------------------------------------------------------
(* bpauto/excel_io.py: the name of a row, combined from several cells.  A  *)
(* part is Null (None) or Str(s).                                          *)

_NAME_NOISE_VALUES ==
    {<<>>, <<"-">>, <<"-", "-">>, <<"N", ".", "N">>,
     <<"N", ".", "N", ".">>, <<"N", "N">>, <<"N", "/", "A">>,
     <<"K", ".", "A">>, <<"K", ".", "A", ".">>, <<"K", "A">>,
     <<"O", ".", "A">>, <<"O", ".", "A", ".">>, <<"O", "A">>,
     <<"O", "H", "N", "E", " ", "A", "N", "G", "A", "B", "E">>,
     <<"K", "E", "I", "N", "E", " ", "A", "N", "G", "A", "B", "E">>}

_VALID_SUFFIX_TOKENS ==
    {<<"A", "G">>, <<"A", "S">>, <<"A", "B">>, <<"B", "V">>,
     <<"B", "V", "B", "A">>, <<"E", "G">>, <<"E", "K">>, <<"E", "V">>,
     <<"G", "B", "R">>, <<"G", "D", "B", "R">>, <<"G", "M", "B", "H">>,
     <<"I", "N", "C">>, <<"K", "G">>, <<"K", "G", "A">>,
     <<"K", "G", "A", "A">>, <<"L", "I", "M", "I", "T", "E", "D">>,
     <<"L", "L", "C">>, <<"L", "L", "P">>, <<"L", "P">>, <<"L", "T", "D">>,
     <<"N", "V">>, <<"O", "H", "G">>, <<"P", "A", "R", "T", "G">>,
     <<"P", "A", "R", "T", "G", "M", "B", "B">>, <<"P", "L", "C">>,
     <<"S", "A", "S">>, <<"S", "A", "R", "L">>, <<"S", "A">>,
     <<"S", "C", "E">>, <<"S", "E">>, <<"S", "P", "A">>, <<"S", "R", "L">>,
     <<"S", "T", "I", "F", "T", "U", "N", "G">>, <<"U", "G">>,
     <<"U", "G", "H", "A", "F", "T", "U", "N", "G", "S", "B", "E", "S", "C", "H", "R", "A", "N", "K", "T">>}

_VALID_SUFFIX_PHRASES ==
    {<<"C", "O", " ", "K", "G">>, <<"C", "O", " ", "K", "G", "A", "A">>}

\* the characters ch of an upper-cased str with ch.isalnum()
Alnum == Letters \cup Digits

\* " ".join(value.split())
CollapseWhitespace(value) == Join(SplitWords(value), <<" ">>)

_is_noise_name_part(value) ==
    LET collapsed == KeepOnly(Upper(value), Alnum)
        normalised == Upper(Strip(value))
    IN  collapsed \in _NAME_NOISE_VALUES \/ normalised \in _NAME_NOISE_VALUES

\* _normalise_name_part that lets the noise placeholders through
_normalise_name_part_keeping_noise(value) ==
    IF value = Null THEN Null
    ELSE LET collapsed == CollapseWhitespace(value.v)
         IN  IF collapsed = <<>> THEN Null
             ELSE Str(collapsed)

_normalise_name_part(value) ==
    IF value = Null THEN Null
    ELSE LET collapsed == CollapseWhitespace(value.v)
         IN  IF collapsed = <<>> THEN Null
             ELSE IF _is_noise_name_part(collapsed) THEN Null
             ELSE Str(collapsed)

\* _SUFFIX_SANITISER.sub("", token.upper())
_normalise_suffix_token(token) ==
    KeepOnly(Upper(token), Digits \cup {UpperLetters[i] : i \in 1..AsciiLetterCount})

\* the last n of tokens, joined by sep
LastJoined(tokens, n, sep) ==
    Join(SubSeq(tokens, Len(tokens) - n + 1, Len(tokens)), sep)

\* _has_valid_suffix for a name that is a str
_has_valid_suffix(name) ==
    LET words == SplitWords(name)
        all == [i \in 1..Len(words) |-> _normalise_suffix_token(words[i])]
        tokens == SelectSeq(all, LAMBDA t : t # <<>>)
        n == Len(tokens)
    IN  /\ n >= 1
        /\ \/ tokens[n] \in _VALID_SUFFIX_TOKENS
           \/ /\ n >= 2
              /\ \/ LastJoined(tokens, 2, <<" ">>) \in _VALID_SUFFIX_PHRASES
                 \/ LastJoined(tokens, 2, <<>>)
                        \in _VALID_SUFFIX_TOKENS \cup _VALID_SUFFIX_PHRASES
           \/ /\ n >= 3
              /\ \/ LastJoined(tokens, 3, <<" ">>) \in _VALID_SUFFIX_PHRASES
                 \/ LastJoined(tokens, 3, <<>>)
                        \in _VALID_SUFFIX_TOKENS \cup _VALID_SUFFIX_PHRASES

\* max(fragments, key=len): the first of the longest fragments
Longest(fragments) ==
    fragments[CHOOSE i \in 1..Len(fragments) :
                 /\ \A j \in 1..Len(fragments) : Len(fragments[j]) <= Len(fragments[i])
                 /\ \A j \in 1..(i - 1) : Len(fragments[j]) < Len(fragments[i])]

\* _combine_name_parts without the preference for a fragment that carries a
\* legal form
_combine_name_parts_longest_only(parts) ==
    LET cleaned_parts == [i \in 1..Len(parts) |-> _normalise_name_part(parts[i])]
        usable == SelectSeq(cleaned_parts, LAMBDA part : part # Null)
        fragments == [i \in 1..Len(usable) |-> usable[i].v]
        combined == Join(fragments, <<" ">>)
    IN  IF fragments = <<>> THEN Null
        ELSE IF Len(fragments) = 1 THEN Str(fragments[1])
        ELSE IF _has_valid_suffix(combined) THEN Str(combined)
        ELSE Str(Longest(fragments))

_combine_name_parts(parts) ==
    LET cleaned_parts == [i \in 1..Len(parts) |-> _normalise_name_part(parts[i])]
        usable == SelectSeq(cleaned_parts, LAMBDA part : part # Null)
        fragments == [i \in 1..Len(usable) |-> usable[i].v]
        combined == Join(fragments, <<" ">>)
        suffix_fragments == SelectSeq(fragments, _has_valid_suffix)
    IN  IF fragments = <<>> THEN Null
        ELSE IF Len(fragments) = 1 THEN Str(fragments[1])
        ELSE IF _has_valid_suffix(combined) THEN Str(combined)
        ELSE IF suffix_fragments # <<>> THEN Str(Longest(suffix_fragments))
        ELSE Str(Longest(fragments))

----------------------------------------------------------------------------
(* Specification SpecCombine: _combine_name_parts applied to up to         *)
(* MaxParts cells of a row.                                                *)

\* ''
PartEmpty == Str(<<>>)

\* ' '
PartBlank == Str(<<" ">>)

\* '-'
PartDash == Str(<<"-">>)

\* 'N.N.'
PartNN == Str(<<"N", ".", "N", ".">>)

\* 'n.n'
PartNNLower == Str(<<"n", ".", "n">>)

\* 'K.A.'
PartKA == Str(<<"K", ".", "A", ".">>)

\* 'OHNE ANGABE'
PartOhneAngabe == Str(<<"O", "H", "N", "E", " ", "A", "N", "G", "A", "B", "E">>)

\* 'ohne  angabe'
PartOhneAngabeWide == Str(<<"o", "h", "n", "e", " ", " ", "a", "n", "g", "a", "b", "e">>)

\* '&'
PartAmpersand == Str(<<"&">>)

\* 'Acme GmbH'
PartAcmeGmbH == Str(<<"A", "c", "m", "e", " ", "G", "m", "b", "H">>)

\* ' Acme  GmbH'
PartAcmeGmbHWide == Str(<<" ", "A", "c", "m", "e", " ", " ", "G", "m", "b", "H">>)

\* 'Acme'
PartAcme == Str(<<"A", "c", "m", "e">>)

\* 'GmbH'
PartGmbH == Str(<<"G", "m", "b", "H">>)

\* '& Co.'
PartCo == Str(<<"&", " ", "C", "o", ".">>)

\* 'KG'
PartKG == Str(<<"K", "G">>)

\* 'Nordwest'
PartNordwest == Str(<<"N", "o", "r", "d", "w", "e", "s", "t">>)

MaxParts == 3

PartValues ==
    {Null, PartEmpty, PartBlank, PartDash, PartNN,
     PartNNLower, PartKA, PartOhneAngabe, PartOhneAngabeWide,
     PartAmpersand, PartAcmeGmbH, PartAcmeGmbHWide, PartAcme,
     PartGmbH, PartCo, PartKG, PartNordwest}

InitCombine ==
    /\ pc = "start"
    /\ name_parts \in StringsUpTo(PartValues, MaxParts)
    /\ name_out = Null
    /\ NormalizeIdle
    /\ ExtractIdle
    /\ MatchIdle
    /\ ZipIdle
    /\ BatchIdle
    /\ SplitIdle
    /\ CliIdle
    /\ RequestIdle
    /\ WorkbookIdle
    /\ TimerIdle

Combine ==
    /\ pc = "start"
    /\ name_out' = _combine_name_parts(name_parts)
    /\ pc' = "combined"
    /\ UNCHANGED <<name_parts, normalizeVars, extractVars, matchVars, zipVars,
                   batchVars, splitVars,
                   cliVars, requestVars, workbookVars, timerVars>>

NextCombine == Combine

SpecCombine == InitCombine /\ [][NextCombine]_vars

\* the part is a placeholder: its upper-cased text, with single blanks
\* between its words or reduced to its letters and digits, is one of the
\* noise values
IsPlaceholder(part) ==
    \/ Upper(CollapseWhitespace(part.v)) \in _NAME_NOISE_VALUES
    \/ SelectSeq(Upper(part.v), LAMBDA c : c \in Alnum) \in _NAME_NOISE_VALUES

\* the part is neither null nor blank nor a placeholder
IsUsable(part) ==
    /\ part # Null
    /\ \E i \in 1..Len(part.v) : ~IsSpace(part.v[i])
    /\ ~IsPlaceholder(part)

UsableParts == {i \in 1..Len(name_parts) : IsUsable(name_parts[i])}

\* C20: _combine_name_parts returns null exactly when every part is null,
\* blank or a noise placeholder, and never an empty string; when exactly one
\* usable part remains it returns that part with its whitespace collapsed.
C20_NullIffNothingUsable ==
    pc = "combined"
    => /\ name_out = Null <=> UsableParts = {}
       /\ name_out # Str(<<>>)
       /\ \A i \in UsableParts :
              UsableParts = {i} => name_out = Str(CollapseWhitespace(name_parts[i].v))

\* combine(['', 'N.N.', 'Acme GmbH']) has returned 'Acme GmbH'
C20_Witness ==
    /\ pc = "combined"
    /\ name_parts = <<PartEmpty, PartNN, PartAcmeGmbH>>
    /\ name_out = PartAcmeGmbH

\* the usable parts in the order of the cells, each with its whitespace
\* collapsed
UsableFragments ==
    LET idx == SelectSeq([i \in 1..Len(name_parts) |-> i],
                         LAMBDA i : IsUsable(name_parts[i]))
    IN  [k \in 1..Len(idx) |-> CollapseWhitespace(name_parts[idx[k]].v)]

\* fragment k is as long as any fragment of the set among
LongestAmong(frags, k, among) ==
    k \in among /\ \A j \in among : Len(frags[j]) <= Len(frags[k])

\* C21: with two or more usable parts _combine_name_parts returns the parts
\* joined by single spaces if the joined string ends in a recognized legal
\* form; otherwise a longest fragment among those that end in a recognized
\* legal form; if no fragment does, a longest fragment overall.  The result
\* is always the joined string or one of the usable fragments.
C21_JoinedOrLongestFragment ==
    (pc = "combined" /\ Cardinality(UsableParts) >= 2)
    => \E frags \in {UsableFragments} :
       \E joined \in {Join(frags, <<" ">>)} :
       \E withForm \in {{k \in DOMAIN frags : _has_valid_suffix(frags[k])}} :
          /\ _has_valid_suffix(joined) => name_out = Str(joined)
          /\ (~_has_valid_suffix(joined) /\ withForm # {})
                => \E k \in withForm :
                      name_out = Str(frags[k]) /\ LongestAmong(frags, k, withForm)
          /\ (~_has_valid_suffix(joined) /\ withForm = {})
                => \E k \in DOMAIN frags :
                      name_out = Str(frags[k]) /\ LongestAmong(frags, k, DOMAIN frags)
          /\ \/ name_out = Str(joined)
             \/ \E k \in DOMAIN frags : name_out = Str(frags[k])

\* combine(['KG', 'Nordwest']) has returned 'KG': 'KG Nordwest' ends in no
\* legal form and 'KG', the shorter fragment, is one
C21_Witness ==
    /\ pc = "combined"
    /\ name_parts = <<PartKG, PartNordwest>>
    /\ name_out = PartKG

----------------------------------------------------------------------------
(* Specification SpecMatch: _best_match and fetch applied to an API        *)
(* response that lists up to MaxCandidates items.                          *)

Acme == <<"A", "c", "m", "e">>
AcmeUpperBlank == <<"A", "C", "M", "E", " ">>
AcmeNord == <<"A", "c", "m", "e", " ", "N", "o", "r", "d">>
Beta == <<"B", "e", "t", "a">>
Essen == <<"E", "s", "s", "e", "n">>
EssenUpper == <<"E", "S", "S", "E", "N">>
EssenLower == <<"e", "s", "s", "e", "n">>
Bonn == <<"B", "o", "n", "n">>
Ulm == <<"U", "l", "m">>
Zip45128 == <<"4", "5", "1", "2", "8">>
Zip44135 == <<"4", "4", "1", "3", "5">>
Zip4512 == <<"4", "5", "1", "2">>
HrbNumber == <<"H", "R", "B", " ", "1", "2">>
ExtractUrl == <<"u", ".", "p", "d", "f">>

\* the items a result list is made of: six entries and one item that is no dict
Items ==
    << Dict([name |-> Str(Acme), postalCode |-> Str(Zip45128), city |-> Str(Essen),
             score |-> Num(1), register |-> Dict([number |-> Str(HrbNumber)]),
             officialExtractUrl |-> Str(ExtractUrl)]),
       Dict([name |-> Str(AcmeNord), postalCode |-> Str(Zip45128), city |-> Str(Bonn),
             score |-> Num(5)]),
       Dict([legalName |-> Str(AcmeUpperBlank),
             address |-> Dict([postalCode |-> Num(45128), city |-> Str(EssenUpper)])]),
       Dict([name |-> Str(Acme), postalCode |-> Str(Zip44135), city |-> Str(Bonn),
             score |-> Num(5)]),
       Dict([name |-> Str(Beta), zip |-> Str(Zip4512), city |-> Str(EssenLower),
             confidence |-> Num(2)]),
       Dict([name |-> Dict([name |-> Str(Beta)]), score |-> Num(-1)]),
       Str(Beta) >>

MaxCandidates == 3

\* the lists of up to n positions of Items
RECURSIVE IndexLists(_)
IndexLists(n) ==
    IF n = 0 THEN {<<>>}
    ELSE LET shorter == IndexLists(n - 1)
         IN  shorter \cup {Append(l, i) : l \in {m \in shorter : Len(m) = n - 1},
                                          i \in DOMAIN Items}

ItemsAt(l) == [k \in 1..Len(l) |-> Items[l[k]]]

\* the shapes of a response: the list under one of the result keys, an entry
\* on its own, nothing at all
Response(shape, l) ==
    CASE shape = "results" -> [results |-> List(ItemsAt(l))]
      [] shape = "data" -> [data |-> List(ItemsAt(l)), result |-> Str(Acme)]
      [] shape = "entry" -> IF l # <<>> /\ Items[l[1]].t = "dict" THEN Items[l[1]].v ELSE EmptyDict
      [] shape = "empty" -> EmptyDict

InitMatch ==
    /\ pc = "start"
    /\ \E l \in IndexLists(MaxCandidates), shape \in {"results", "data", "entry", "empty"} :
          api_raw = Response(shape, l)
    /\ arg_name \in {Str(Lower(Acme)), Str(Beta)}
    /\ arg_zip \in {Null, Str(Zip45128), Str(Zip4512)}
    /\ arg_city \in {Null, Str(EssenLower), Str(Bonn), Str(Ulm)}
    /\ matched = Null
    /\ fetched = EmptyDict
    /\ NormalizeIdle
    /\ ExtractIdle
    /\ ZipIdle
    /\ BatchIdle
    /\ SplitIdle
    /\ CombineIdle
    /\ CliIdle
    /\ RequestIdle
    /\ WorkbookIdle
    /\ TimerIdle

\* payload = self._best_match(raw, name=name, zip_code=zip_code, city=city)
BestMatch ==
    /\ pc = "start"
    /\ matched' = _best_match(api_raw, arg_name, arg_zip, arg_city)
    /\ pc' = "matched"
    /\ UNCHANGED <<queryVars, fetched, normalizeVars, extractVars, zipVars, batchVars,
                   splitVars, combineVars,
                   cliVars, requestVars, workbookVars, timerVars>>

\* provider.fetch(name, zip_code, city=city)
Fetch ==
    /\ pc = "start"
    /\ fetched' = fetch(api_raw, arg_name, arg_zip, arg_city)
    /\ pc' = "fetched"
    /\ UNCHANGED <<queryVars, matched, normalizeVars, extractVars, zipVars, batchVars,
                   splitVars, combineVars,
                   cliVars, requestVars, workbookVars, timerVars>>

NextMatch == BestMatch \/ Fetch

SpecMatch == InitMatch /\ [][NextMatch]_vars

\* the candidates of the query at hand, and what the steps of _best_match
\* leave of them
QueryCandidates == Candidates(api_raw, arg_name, arg_zip, arg_city)

AfterCity == CityFilter(QueryCandidates, arg_city)

AfterZip == ZipFilter(AfterCity, arg_zip)

QueryPool == FinalPool(api_raw, arg_name, arg_zip, arg_city)

\* the positions of the candidates that match the query name exactly and have
\* the query postal code
ExactWithZip ==
    {i \in DOMAIN QueryCandidates :
        QueryCandidates[i].is_exact_match /\ QueryCandidates[i].zip_matches}

TheExactWithZip == QueryCandidates[CHOOSE i \in ExactWithZip : TRUE]

SomeCityMatches == \E i \in DOMAIN QueryCandidates : QueryCandidates[i].city_matches

\* C4 as stated: when exactly one candidate matches the query name exactly
\* and has the query postal code, _best_match returns that candidate,
\* whatever the scores and whatever query_city is.
C4_UniqueExactWithZipWins ==
    (pc = "matched" /\ Cardinality(ExactWithZip) = 1)
        => matched = Dict(TheExactWithZip.payload)

\* C4 amended: when exactly one candidate matches the query name exactly and
\* has the query postal code, _best_match returns that candidate whatever
\* the scores are, provided query_city is absent, or matches no candidate's
\* city, or matches the city of that candidate.
C4_UniqueExactWithZipWinsInCity ==
    (/\ pc = "matched"
     /\ Cardinality(ExactWithZip) = 1
     /\ \/ ~Truthy(arg_city)
        \/ ~SomeCityMatches
        \/ TheExactWithZip.city_matches)
        => matched = Dict(TheExactWithZip.payload)

\* the unique exact candidate with the postal code is returned although
\* another candidate of the list has a higher score
C4_Witness ==
    /\ pc = "matched"
    /\ Cardinality(ExactWithZip) = 1
    /\ Truthy(arg_city)
    /\ TheExactWithZip.city_matches
    /\ \E i \in DOMAIN QueryCandidates :
          QueryCandidates[i].score > TheExactWithZip.score
    /\ matched = Dict(TheExactWithZip.payload)

\* the result of _best_match for the same query without a city
WithoutCity == _best_match(api_raw, arg_name, arg_zip, Null)

\* C5: the city filter never empties the pool.  If query_city is given and
\* some candidate's city equals it case-insensitively, the returned
\* candidate is city-matching; if no candidate's city matches, the result is
\* the one for the query without a city; for a non-empty candidate list the
\* result is one element of that list.
C5_CityFilterNeverEmpties ==
    pc = "matched" =>
        /\ (Truthy(arg_city) /\ SomeCityMatches)
              => (matched.t = "dict" /\ CityMatches(matched.v, arg_city))
        /\ ~SomeCityMatches => matched = WithoutCity
        /\ QueryCandidates # <<>>
              => \E i \in DOMAIN QueryCandidates :
                    matched = Dict(QueryCandidates[i].payload)

\* a city-matching candidate is returned although a candidate of another
\* city has a higher score
C5_Witness ==
    /\ pc = "matched"
    /\ Truthy(arg_city)
    /\ matched.t = "dict"
    /\ CityMatches(matched.v, arg_city)
    /\ \E i \in DOMAIN QueryCandidates :
          /\ ~QueryCandidates[i].city_matches
          /\ QueryCandidates[i].score > _float_score(matched.v, <<"score", "confidence", "matchScore">>)

\* the entry's postal code is, as a whole value, the query postal code
HasQueryZip(entry) ==
    /\ Truthy(EntryZip(entry))
    /\ Strip(PyStr(EntryZip(entry))) = Strip(PyStr(arg_zip))

SomeZipLeftByCity == \E i \in DOMAIN AfterCity : HasQueryZip(AfterCity[i].payload)

\* C6: the postal-code filter compares whole values.  If query_zip is given
\* and a candidate of the pool left by the city filter has the query postal
\* code, the returned candidate has it ('45128' is not a match for '4512');
\* if none has it, the filter leaves that pool unchanged.
C6_ZipFilterWholeValue ==
    (pc = "matched" /\ Truthy(arg_zip) /\ QueryCandidates # <<>>) =>
        /\ SomeZipLeftByCity => HasQueryZip(matched.v)
        /\ ~SomeZipLeftByCity => AfterZip = AfterCity
        /\ \A i \in DOMAIN AfterZip :
              SomeZipLeftByCity => HasQueryZip(AfterZip[i].payload)

\* query '4512': the candidate with '4512' is returned and a candidate with
\* '45128' of the same pool is not
C6_Witness ==
    /\ pc = "matched"
    /\ arg_zip = Str(Zip4512)
    /\ SomeZipLeftByCity
    /\ HasQueryZip(matched.v)
    /\ \E i \in DOMAIN AfterCity :
          /\ EntryZip(AfterCity[i].payload) = Str(Zip45128)
          /\ AfterCity[i].score > _float_score(matched.v, <<"score", "confidence", "matchScore">>)

\* C7: from the final pool _best_match returns the candidate with the
\* highest numeric score, a candidate without one counting as 0; among the
\* candidates of that score, the one earliest in the original result list.
C7_HighestScoreEarliestWins ==
    (pc = "matched" /\ QueryCandidates # <<>>) =>
        \E i \in DOMAIN QueryPool :
            /\ matched = Dict(QueryPool[i].payload)
            /\ \A k \in DOMAIN QueryPool :
                  \/ QueryPool[k].score < QueryPool[i].score
                  \/ /\ QueryPool[k].score = QueryPool[i].score
                     /\ QueryPool[k].index >= QueryPool[i].index

\* two candidates of the final pool tie at the highest score, a third has a
\* lower one, and the earlier of the two is returned
C7_Witness ==
    /\ pc = "matched"
    /\ \E i, k, l \in DOMAIN QueryPool :
          /\ QueryPool[i].index < QueryPool[k].index
          /\ QueryPool[i].score = QueryPool[k].score
          /\ QueryPool[l].score < QueryPool[i].score
          /\ QueryPool[i].payload # QueryPool[k].payload
          /\ \A m \in DOMAIN QueryPool : QueryPool[m].score <= QueryPool[i].score
          /\ matched = Dict(QueryPool[i].payload)

\* the fields of a record that come from a match
MatchFields == {"register_type", "register_no", "street", "zip", "city", "pdf_path"}

\* C8: when the response yields no candidate entry, _best_match returns None
\* and fetch returns a record whose notes is 'no result' and that carries no
\* register_type, register_no, street, zip, city or pdf_path.
C8_NoCandidatesNoMatch ==
    _extract_results(api_raw) = <<>> =>
        /\ pc = "matched" => matched = Null
        /\ pc = "fetched" =>
              /\ fetched.notes = <<NotePart("no result", <<>>)>>
              /\ DOMAIN fetched \cap MatchFields = {}

\* a response whose result list holds only an item that is no dict: fetch
\* has returned the 'no result' record
C8_Witness ==
    /\ pc = "fetched"
    /\ Get(api_raw, "results") = List(<<Str(Beta)>>)
    /\ _extract_results(api_raw) = <<>>
    /\ fetched = NoResultRecord(arg_name)

----------------------------------------------------------------------------
(* Specification SpecZip: looks_like_same_zip applied to a text and a      *)
(* postal code.                                                            *)

MaxZipTextLen == 4

MaxPlzLen == 2

\* two digits, a letter, a blank and a punctuation mark
ZipChars == {"4", "5", "a", " ", "."}

AddressEssen == <<"W", "e", "g", " ", "1", ",", " ", "4", "5", "1", "2", "8", " ", "E", "s", "s", "e", "n">>

AddressInBrackets == <<"W", "e", "g", " ", "1", ",", " ", "(", "4", "5", "1", "2", "8", ")", " ", "E", "s", "s", "e", "n">>

ZipInBrackets == <<"(", "4", "5", "1", "2", "8", ")">>

ZipTexts == StringsUpTo(ZipChars, MaxZipTextLen) \cup {AddressEssen, AddressInBrackets}

ZipCodes == StringsUpTo(ZipChars, MaxPlzLen) \cup {Zip45128, Zip4512, ZipInBrackets}

InitZip ==
    /\ pc = "start"
    /\ zip_text \in {Null} \cup {Str(s) : s \in ZipTexts}
    /\ zip_plz \in {Null} \cup {Str(s) : s \in ZipCodes}
    /\ same_zip = FALSE
    /\ NormalizeIdle
    /\ ExtractIdle
    /\ MatchIdle
    /\ BatchIdle
    /\ SplitIdle
    /\ CombineIdle
    /\ CliIdle
    /\ RequestIdle
    /\ WorkbookIdle
    /\ TimerIdle

\* looks_like_same_zip(r.get("address"), postal_code)
LooksLikeSameZip ==
    /\ pc = "start"
    /\ same_zip' = looks_like_same_zip(zip_text, zip_plz)
    /\ pc' = "zip_tested"
    /\ UNCHANGED <<zip_text, zip_plz, normalizeVars, extractVars, matchVars, batchVars,
                   splitVars, combineVars,
                   cliVars, requestVars, workbookVars, timerVars>>

NextZip == LooksLikeSameZip

SpecZip == InitZip /\ [][NextZip]_vars

\* plz stands in s at position i, neither directly preceded nor directly
\* followed by a word character
StandaloneAt(s, plz, i) ==
    /\ StartsAt(s, plz, i)
    /\ ~(i > 1 /\ IsWord(s[i - 1]))
    /\ ~(i + Len(plz) <= Len(s) /\ IsWord(s[i + Len(plz)]))

\* C9: looks_like_same_zip(text, plz) is true exactly when text and plz are
\* both non-empty and plz occurs in text as a standalone token, that is not
\* directly preceded or followed by a digit or word character; it is false
\* when text or plz is empty or missing.
C9_StandaloneToken ==
    pc = "zip_tested" =>
        same_zip = (/\ Truthy(zip_text)
                    /\ Truthy(zip_plz)
                    /\ \E i \in 1..Len(zip_text.v) :
                          StandaloneAt(zip_text.v, zip_plz.v, i))

----------------------------------------------------------------------------
(* The batch mode of PlayHandelsregister.main_async, with                  *)
(* exel.read_jobs_from_excel, exel.write_to_excel_error,                   *)
(* exel.write_update_to_excel and PDFScanner.extract_from_pdf.             *)
(*                                                                         *)
(* The workbook file is a function from row numbers to rows, a row a       *)
(* record of its cells.  The cells read_jobs_from_excel reads (name, SAP   *)
(* numbers, country) are None or a str (Null, Str); a cell the loop writes *)
(* is a str, blank if empty.  What the website does is an input of each    *)
(* job: the searches perform_search submits, the number of result rows,    *)
(* the failed downloads before the PDF is there, the text of the PDF.      *)

\* args.start (default)
StartRow == 3

\* if counter >= 60
SearchLimit == 60

Yes == <<"y", "e", "s">>

No == <<"n", "o">>

Germany == <<"D", "E">>

UnitedStates == <<"U", "S">>

SapNumber == <<"7">>

Today == Lit("today")

UnexpectedPdfFormat == Lit("unexpected PDF Format")

\* the cells of a row the loop writes, in a sheet no run has touched
BlankCells ==
    [name1 |-> <<>>, name3 |-> <<>>, street |-> <<>>, house_number |-> <<>>,
     postal_code |-> <<>>, city |-> <<>>, register_type |-> <<>>, regno |-> <<>>,
     doc_path |-> <<>>, changes_check |-> <<>>, date_check |-> <<>>]

\* a row with the cells that are read, the others blank
RowWith(name, sap_supplier, sap_customer, country) ==
    [name |-> name, sap_supplier |-> sap_supplier, sap_customer |-> sap_customer,
     country |-> country] @@ BlankCells

\* safe_get for a cell the loop writes: None if blank
CellOrNone(v) == IF Strip(v) = <<>> THEN Null ELSE Str(v)

\* str(v).strip() if v not in (None, "") else None
StripOrNone(v) == IF Truthy(v) THEN Str(Strip(PyStr(v))) ELSE Null

\* the job read_jobs_from_excel makes of a row: a row without a name gives a
\* job of three keys only
JobOfRow(r) ==
    IF ~Truthy(r.name)
    THEN [name |-> Null, register_no |-> Null, sap |-> Null]
    ELSE [name |-> Str(Strip(PyStr(r.name))),
          register_no |-> StripOrNone(CellOrNone(r.regno)),
          sap |-> StripOrNone(IF Truthy(r.sap_supplier) THEN r.sap_supplier ELSE r.sap_customer),
          postal_code |-> StripOrNone(CellOrNone(r.postal_code)),
          country |-> StripOrNone(r.country)]

\* the jobs of the rows from StartRow on (end is None)
read_jobs_from_excel(sh) ==
    [k \in 1..Cardinality(DOMAIN sh) |-> JobOfRow(sh[k + StartRow - 1])]

\* a write that stores the error text and leaves the row unmarked
write_to_excel_error_unmarked(sh, row, error_msg, pdf_path) ==
    [sh EXCEPT ![row] = [@ EXCEPT !.name1 = error_msg]]

\* write_to_excel_error with error_col = args.name1_col: loads the workbook,
\* sets the cells, saves
write_to_excel_error(sh, row, error_msg, pdf_path) ==
    [sh EXCEPT ![row] =
        [@ EXCEPT !.changes_check = Yes,
                  !.name1 = error_msg,
                  !.doc_path = IF Truthy(pdf_path) THEN pdf_path.v ELSE @]]

_norm_sap(v) ==
    IF v.t = "null" THEN Null
    ELSE IF Strip(PyStr(v)) = <<>> THEN Null
    ELSE Str(Strip(PyStr(v)))

\* update_info.get(key, "")
GetOrBlank(update_info, key) ==
    IF Lit(key) \in DOMAIN update_info THEN update_info[Lit(key)] ELSE <<>>

\* write_update_to_excel: on a SAP mismatch the workbook is not saved and
\* the file stays as it is; otherwise the fields go into the row
write_update_to_excel(sh, row, update_info) ==
    LET sap_supplier == _norm_sap(sh[row].sap_supplier)
        sap_customer == _norm_sap(sh[row].sap_customer)
        sap_new == _norm_sap(update_info[Lit("sap_number")])
    IN  IF ~Truthy(sap_new) \/ (sap_new # sap_supplier /\ sap_new # sap_customer)
        THEN sh
        ELSE [sh EXCEPT ![row] =
                [@ EXCEPT !.name1 = GetOrBlank(update_info, "company_name"),
                          !.name3 = <<>>,
                          !.street = GetOrBlank(update_info, "street"),
                          !.house_number = GetOrBlank(update_info, "house_number"),
                          !.postal_code = GetOrBlank(update_info, "postal_code"),
                          !.city = GetOrBlank(update_info, "city"),
                          !.register_type = GetOrBlank(update_info, "register_type"),
                          !.regno = GetOrBlank(update_info, "register_number"),
                          !.doc_path = GetOrBlank(update_info, "download_path"),
                          !.changes_check = No,
                          !.date_check = Today]]

\* extract_from_pdf: the fields of the text plus the file; any exception of
\* the extractor gives the error record
extract_from_pdf(full_text, pdf_path) ==
    LET info == extract_from_text(full_text)
    IN  IF info.exc = "none"
        THEN Merge(info.val, Lit("file") :> pdf_path)
        ELSE (Lit("file") :> pdf_path) @@ (Lit("error") :> Lit(info.exc))
             @@ (Lit("register_type") :> <<>>) @@ (Lit("register_number") :> <<>>)
             @@ (Lit("company_name") :> <<>>) @@ (Lit("address") :> <<>>)

\* the path download_ad_for_row saves to (the date part is left out)
SavePath(company_name, sap_number) ==
    (IF Truthy(sap_number) THEN PyStr(sap_number) \o <<"_">> ELSE <<>>)
        \o company_name \o <<".", "p", "d", "f">>

\* extract_from_pdf(path) | {"company_name": ..., "sap_number": ..., "download_path": ...}
UpdateInfo(pdf_text, company_name, sap_number) ==
    LET path == SavePath(company_name, sap_number)
    IN  Merge(extract_from_pdf(pdf_text, path),
              (Lit("company_name") :> company_name) @@ (Lit("sap_number") :> sap_number)
              @@ (Lit("download_path") :> path))

----------------------------------------------------------------------------
(* Specification SpecBatch: the batch loop over the jobs of a sheet.       *)

MaxJobs == 2

MaxSearches == 2

MaxResults == 2

MaxDownloadFails == 1

\* the rows of a sheet: a German company with and without a SAP number, a
\* company of another country, a row without a name
SheetRows ==
    { RowWith(Str(Acme), Str(SapNumber), Null, Str(Germany)),
      RowWith(Str(Acme), Null, Null, Str(Germany)),
      RowWith(Str(Acme), Null, Str(SapNumber), Str(UnitedStates)),
      RowWith(Null, Null, Null, Str(Germany)) }

\* the sheet that holds the rows from StartRow on
SheetOf(rows) == [r \in StartRow..(StartRow + Len(rows) - 1) |-> rows[r - StartRow + 1]]

\* the texts of the downloaded PDF: Layout A; no marker of either layout (the
\* extractor returns the sentinel under the key VR); no text at all
PdfTexts ==
    { Join(<<LineTitle, LineHrb, LineFirma, LineGesch>>, <<NL>>),
      Join(<<LineTitle, LineHrb, LineTitle, LineVrSe>>, <<NL>>),
      <<>> }

\* r["name"] of the one result row
ResultNames == {AcmeNord}

InitBatch ==
    /\ pc = "batch"
    /\ \E rows \in StringsUpTo(SheetRows, MaxJobs) :
          /\ sheet = SheetOf(rows)
          /\ jobs = read_jobs_from_excel(SheetOf(rows))
          /\ downloads = [k \in 1..Len(rows) |-> 0]
          /\ seen = [k \in 1..Len(rows) |-> -1]
    /\ download_ad \in BOOLEAN
    /\ job_i = 1
    /\ counter = 0
    /\ waits = 0
    /\ NormalizeIdle
    /\ ExtractIdle
    /\ MatchIdle
    /\ ZipIdle
    /\ SplitIdle
    /\ CombineIdle
    /\ CliIdle
    /\ RequestIdle
    /\ WorkbookIdle
    /\ TimerIdle

\* one pass of "for i, job in enumerate(jobs, 1)".  A rerun for a failed
\* download submits one search; update_info is what the PDF of the pass would
\* give.
ProcessJob ==
    /\ pc = "batch"
    /\ job_i <= Len(jobs)
    /\ \E searches \in 1..MaxSearches, n \in 0..MaxResults,
          fails \in 0..MaxDownloadFails,
          update_info \in {UpdateInfo(pdf_text, replace_umlauts(Upper(name)),
                                      jobs[job_i].sap) :
                               pdf_text \in PdfTexts, name \in ResultNames} :
          LET job == jobs[job_i]
              row == job_i + StartRow - 1
          IN  IF "country" \notin DOMAIN job
              THEN \* job["country"] raises KeyError
                   /\ pc' = "batch_crashed"
                   /\ UNCHANGED batchVars
              ELSE IF job.country # Str(Germany)
              THEN /\ job_i' = job_i + 1
                   /\ UNCHANGED <<pc, jobs, download_ad, sheet, downloads, seen, counter, waits>>
              ELSE /\ waits' = IF counter >= SearchLimit THEN waits + 1 ELSE waits
                   /\ UNCHANGED <<jobs, download_ad>>
                   /\ IF job.name = Null
                      THEN /\ job_i' = job_i + 1
                           /\ UNCHANGED <<pc, sheet, downloads, seen, counter>>
                      ELSE /\ seen' = [seen EXCEPT ![job_i] = n]
                           /\ IF n # 1
                              THEN /\ sheet' = write_to_excel_error(sheet, row, DecStr(n), Null)
                                   /\ counter' = counter + searches
                                   /\ job_i' = job_i + 1
                                   /\ UNCHANGED <<pc, downloads>>
                              ELSE IF ~download_ad
                              THEN /\ counter' = counter + searches
                                   /\ job_i' = job_i + 1
                                   /\ UNCHANGED <<pc, sheet, downloads>>
                              ELSE /\ downloads' = [downloads EXCEPT ![job_i] = fails + 1]
                                   /\ counter' = counter + searches + fails
                                   /\ IF Lit("register_type") \notin DOMAIN update_info
                                      THEN \* update_info["register_type"] raises KeyError
                                           /\ pc' = "batch_crashed"
                                           /\ UNCHANGED <<sheet, job_i>>
                                      ELSE IF update_info[Lit("register_type")] = Lit("unexpected Format")
                                      THEN /\ sheet' = write_to_excel_error(
                                                  sheet, row, UnexpectedPdfFormat,
                                                  Str(update_info[Lit("download_path")]))
                                           /\ job_i' = job_i + 1
                                           /\ UNCHANGED pc
                                      ELSE /\ sheet' = write_update_to_excel(sheet, row, update_info)
                                           /\ job_i' = job_i + 1
                                           /\ UNCHANGED pc
    /\ UNCHANGED <<normalizeVars, extractVars, matchVars, zipVars,
                   splitVars, combineVars,
                   cliVars, requestVars, workbookVars, timerVars>>

\* the loop is through
FinishBatch ==
    /\ pc = "batch"
    /\ job_i > Len(jobs)
    /\ pc' = "batch_done"
    /\ UNCHANGED <<batchVars, normalizeVars, extractVars, matchVars, zipVars,
                   splitVars, combineVars,
                   cliVars, requestVars, workbookVars, timerVars>>

NextBatch == ProcessJob \/ FinishBatch

SpecBatch == InitBatch /\ [][NextBatch]_vars

\* the row of job k
RowOfJob(k) == sheet[k + StartRow - 1]

\* the cells that hold extracted fields, all but name1 (it takes the error
\* text too)
FieldCells ==
    {"street", "house_number", "postal_code", "city", "register_type", "regno", "date_check"}

\* extracted fields have been written into the row
RowUpdated(r) == r.changes_check = No \/ \E c \in FieldCells : r[c] # <<>>

\* C10: in batch mode, for every job, the AD download and the write of the
\* extracted fields into the row happen only if get_results returned exactly
\* one row; when it returned none or several, nothing is downloaded, the
\* row is marked for review (changes-check 'yes', the result count as the
\* error text), and the loop goes on to the next job.
C10_OnlySingleResultIsProcessed ==
    \A k \in 1..Len(jobs) :
        /\ downloads[k] > 0 => seen[k] = 1
        /\ RowUpdated(RowOfJob(k)) => seen[k] = 1
        /\ (seen[k] >= 0 /\ seen[k] # 1) =>
              /\ downloads[k] = 0
              /\ ~RowUpdated(RowOfJob(k))
              /\ RowOfJob(k).doc_path = <<>>
              /\ RowOfJob(k).changes_check = Yes
              /\ RowOfJob(k).name1 = DecStr(seen[k])
              /\ job_i > k

\* a job with two result rows was marked and nothing was downloaded for it;
\* the next job had one result row, its AD was downloaded and its fields
\* written
C10_Witness ==
    \E k \in 1..(Len(jobs) - 1) :
        /\ seen[k] = 2
        /\ downloads[k] = 0
        /\ RowOfJob(k).changes_check = Yes
        /\ RowOfJob(k).name1 = <<"2">>
        /\ seen[k + 1] = 1
        /\ downloads[k + 1] > 0
        /\ RowOfJob(k + 1).changes_check = No
        /\ RowOfJob(k + 1).street # <<>>

\* C28: in batch mode a row without a company name is skipped and the loop
\* goes on with the next job, job i staying the job of row start + i - 1;
\* such a row never aborts the run.
C28_NamelessRowSkipped ==
    \A k \in 1..Len(jobs) :
        jobs[k].name = Null =>
            /\ ~Truthy(RowOfJob(k).name)
            /\ seen[k] = -1
            /\ downloads[k] = 0
            /\ ~RowUpdated(RowOfJob(k))
            /\ ~(pc = "batch_crashed" /\ job_i = k)

\* write_update_to_excel was called for job k: one result row, the AD
\* downloaded, and the row does not carry the error text of the PDF format
UpdateCalled(k) ==
    /\ job_i > k
    /\ seen[k] = 1
    /\ downloads[k] > 0
    /\ RowOfJob(k).name1 # UnexpectedPdfFormat

\* the SAP number of the update is non-empty and is the supplier or the
\* customer SAP number of the row
SapMatches(k) ==
    /\ Truthy(jobs[k].sap)
    /\ \/ jobs[k].sap = _norm_sap(RowOfJob(k).sap_supplier)
       \/ jobs[k].sap = _norm_sap(RowOfJob(k).sap_customer)

\* C29: write_update_to_excel writes the extracted fields into the row only
\* when the SAP number of the update is non-empty and equals the supplier or
\* customer SAP number of the row; otherwise every data cell of the row
\* (name, address, register, document path, date) stays as it was and the
\* only change stored in the workbook is the changes-check cell set to 'yes'.
C29_MismatchOnlyMarksRow ==
    \A k \in 1..Len(jobs) :
        /\ RowUpdated(RowOfJob(k)) => SapMatches(k)
        /\ (UpdateCalled(k) /\ ~SapMatches(k)) =>
              /\ \A c \in FieldCells \cup {"name1", "name3", "doc_path"} :
                    RowOfJob(k)[c] = <<>>
              /\ RowOfJob(k).changes_check = Yes

----------------------------------------------------------------------------
(* Specification SpecCli: main of cli.py, the loop over the rows iter_rows *)
(* yields.  provider.fetch is the environment: it returns a record or      *)
(* raises.                                                                 *)

MaxCliRows == 3

NoResultNote == <<"n", "o", " ", "r", "e", "s", "u", "l", "t">>

ConfidenceNote == <<"c", "o", "n", "f", "i", "d", "e", "n", "c", "e">>

\* sub in s
HasSub(s, sub) ==
    \E i \in 1..(Len(s) - Len(sub) + 1) : SubSeq(s, i, i + Len(sub) - 1) = sub

\* the rows iter_rows yields: every one has a name; the country cell holds
\* DE, another country code, or nothing
CliRowKinds ==
    {[name |-> Str(Acme), zip |-> Null, country |-> c] :
        c \in {Str(Germany), Str(UnitedStates), Null}}

\* rows start..: the k-th yielded row with its sheet index
IndexedRows(rows) ==
    [k \in 1..Len(rows) |-> [index |-> k + StartRow - 1] @@ rows[k]]

\* what provider.fetch does: a record with its notes, RuntimeError, or
\* another exception
FetchOutcomes ==
    {Return(Lit("notes") :> n) : n \in {Null, Str(NoResultNote), Str(ConfidenceNote)}}
        \cup {Raise("RuntimeError"), Raise("Exception")}

InitCli ==
    /\ pc = "cli"
    /\ \E rows \in StringsUpTo(CliRowKinds, MaxCliRows) : cli_rows = IndexedRows(rows)
    /\ dry_run \in BOOLEAN
    /\ cli_i = 1
    /\ fetch_calls = <<>>
    /\ processed = 0
    /\ cli_hits = 0
    /\ no_result = 0
    /\ errors = 0
    /\ written = <<>>
    /\ saved = FALSE
    /\ exit_code = -1
    /\ NormalizeIdle
    /\ ExtractIdle
    /\ MatchIdle
    /\ ZipIdle
    /\ BatchIdle
    /\ SplitIdle
    /\ CombineIdle
    /\ RequestIdle
    /\ WorkbookIdle
    /\ TimerIdle

\* one pass of "for row in rows"
CliRow ==
    /\ pc = "cli"
    /\ cli_i <= Len(cli_rows)
    /\ \E out \in FetchOutcomes :
          LET row == cli_rows[cli_i]
              called == Truthy(row.name)
              notes == IF Truthy(Get(out.val, Lit("notes")))
                       THEN Lower(Get(out.val, Lit("notes")).v) ELSE <<>>
              recorded == called /\ out.exc = "none"
          IN  /\ processed' = processed + 1
              /\ fetch_calls' =
                    IF called
                    THEN Append(fetch_calls,
                                [name |-> row.name, zip_code |-> row.zip,
                                 country |-> row.country])
                    ELSE fetch_calls
              /\ pc' = IF called /\ out.exc = "RuntimeError" THEN "cli_done" ELSE "cli"
              /\ exit_code' = IF called /\ out.exc = "RuntimeError" THEN 3 ELSE exit_code
              /\ errors' = IF called /\ out.exc = "Exception" THEN errors + 1 ELSE errors
              /\ no_result' =
                    IF recorded /\ HasSub(notes, NoResultNote)
                    THEN no_result + 1 ELSE no_result
              /\ cli_hits' =
                    IF recorded /\ ~HasSub(notes, NoResultNote)
                    THEN cli_hits + 1 ELSE cli_hits
              /\ written' =
                    IF recorded /\ ~dry_run THEN Append(written, row.index) ELSE written
    /\ cli_i' = cli_i + 1
    /\ UNCHANGED <<cli_rows, dry_run, saved, normalizeVars, extractVars, matchVars,
                   zipVars, batchVars, splitVars, combineVars, requestVars,
                   workbookVars, timerVars>>

\* the rows are through: save, the summary, the exit code
CliFinish ==
    /\ pc = "cli"
    /\ cli_i > Len(cli_rows)
    /\ saved' = ~dry_run
    /\ exit_code' = IF errors > 0 THEN 4 ELSE 0
    /\ pc' = "cli_done"
    /\ UNCHANGED <<cli_rows, dry_run, cli_i, fetch_calls, processed, cli_hits,
                   no_result, errors, written, normalizeVars, extractVars,
                   matchVars, zipVars, batchVars, splitVars, combineVars,
                   requestVars, workbookVars, timerVars>>

NextCli == CliRow \/ CliFinish

SpecCli == InitCli /\ [][NextCli]_vars

\* C22: main calls provider.fetch only for rows whose country is DE: a row
\* with another country code is skipped without a fetch call, and a run
\* over such rows with no errors exits with code 0.
C22_FetchOnlyForGermany ==
    /\ \A k \in 1..Len(fetch_calls) : fetch_calls[k].country = Str(Germany)
    /\ Len(fetch_calls) <= Cardinality({k \in 1..Len(cli_rows) :
                                            cli_rows[k].country = Str(Germany)})
    /\ (pc = "cli_done" /\ errors = 0 /\ exit_code # 3) => exit_code = 0

----------------------------------------------------------------------------
(* Specification SpecRequest: NorthDataProvider.fetch with the requests of *)
(* _query_api.  The server is the environment: every requests.get call     *)
(* fails in the network or gives a response with a status code and a body. *)

\* stop_after_attempt(5)
MaxAttempts == 5

_RETRYABLE_STATUS_CODES == {429, 500, 502, 503, 504}

\* the responses: status 0 stands for requests.RequestException raised by
\* requests.get; the body is empty, no JSON, a JSON list, a JSON dict
NetworkError == [status |-> 0, body |-> "none"]

Replies ==
    {NetworkError}
        \cup {[status |-> c, body |-> "none"] :
                c \in {400, 401, 403, 404} \cup _RETRYABLE_STATUS_CODES}
        \cup {[status |-> 200, body |-> b] : b \in {"empty", "invalid", "list", "dict"}}

\* response.json() of a body that is a JSON dict
JsonPayload == Response("results", <<1>>)

\* params of _query_api
QueryParams(name, zip_code, city, country) ==
    LET address_parts ==
            (IF Truthy(zip_code) THEN <<PyStr(zip_code)>> ELSE <<>>)
                \o (IF Truthy(city) THEN <<city.v>> ELSE <<>>)
                \o (IF Truthy(country) THEN <<country.v>> ELSE <<>>)
    IN  IF address_parts # <<>>
        THEN (Lit("name") :> name.v) @@ (Lit("address") :> Join(address_parts, <<" ">>))
        ELSE (Lit("name") :> name.v)

\* _perform_request_once: what one attempt gives for a response
_perform_request_once(reply) ==
    IF reply.status = 0 THEN Raise("_RetryableRequestError")
    ELSE IF reply.status \in {401, 403} THEN Raise("RuntimeError")
    ELSE IF reply.status = 404 THEN Return(EmptyDict)
    ELSE IF reply.status \in _RETRYABLE_STATUS_CODES THEN Raise("_RetryableRequestError")
    ELSE IF reply.status >= 400 THEN Raise("HTTPError")
    ELSE IF reply.body = "empty" THEN Return(EmptyDict)
    ELSE IF reply.body = "invalid" THEN Raise("_RetryableRequestError")
    ELSE IF reply.body = "dict" THEN Return(JsonPayload)
    ELSE Return(EmptyDict)

\* a retry condition that takes every exception
Retried_any_exception(outcome) == outcome.exc # "none"

\* retry_if_exception_type(_RetryableRequestError)
Retried(outcome) == outcome.exc = "_RetryableRequestError"

InitRequest ==
    /\ pc = "request"
    /\ \E zip_code \in {Null, Str(Zip45128)}, city \in {Null, Str(Essen)},
          country \in {Null, Str(Germany)} :
          query_args = [name |-> Str(Acme), zip_code |-> zip_code, city |-> city,
                        country |-> country]
    /\ sent_params = <<>>
    /\ replies = <<>>
    /\ query_raw = Return(EmptyDict)
    /\ fetch_result = Return(EmptyDict)
    /\ NormalizeIdle
    /\ ExtractIdle
    /\ MatchIdle
    /\ ZipIdle
    /\ BatchIdle
    /\ SplitIdle
    /\ CombineIdle
    /\ CliIdle
    /\ WorkbookIdle
    /\ TimerIdle

\* one attempt of _perform_request; after the last attempt or an outcome
\* that is not retried, _query_api returns or raises
Attempt ==
    /\ pc = "request"
    /\ Len(sent_params) < MaxAttempts
    /\ \E reply \in Replies :
          LET outcome == _perform_request_once(reply)
              attempt_number == Len(sent_params) + 1
          IN  /\ sent_params' =
                    Append(sent_params,
                           QueryParams(query_args.name, query_args.zip_code,
                                       query_args.city, query_args.country))
              /\ replies' = Append(replies, reply)
              /\ IF Retried(outcome) /\ attempt_number < MaxAttempts
                 THEN pc' = "request" /\ UNCHANGED query_raw
                 ELSE /\ pc' = "queried"
                      /\ query_raw' = IF Retried(outcome) THEN Return(EmptyDict) ELSE outcome
    /\ UNCHANGED <<query_args, fetch_result, normalizeVars, extractVars, matchVars,
                   zipVars, batchVars, splitVars, combineVars, cliVars, workbookVars,
                   timerVars>>

\* CompanyRecord(legal_name=name, notes="fehler bei anfrage", source="northdata_api")
RequestErrorRecord(name) ==
    [legal_name |-> PyStr(name),
     notes |-> <<NotePart("fehler bei anfrage", <<>>)>>,
     source |-> Lit("northdata_api")]

\* fetch after _query_api
FetchAfterQuery ==
    /\ pc = "queried"
    /\ fetch_result' =
          IF query_raw.exc = "RuntimeError" THEN Raise("RuntimeError")
          ELSE IF query_raw.exc # "none" THEN Return(RequestErrorRecord(query_args.name))
          ELSE Return(fetch(query_raw.val, query_args.name, query_args.zip_code,
                            query_args.city))
    /\ pc' = "fetched"
    /\ UNCHANGED <<query_args, sent_params, replies, query_raw, normalizeVars,
                   extractVars, matchVars, zipVars, batchVars, splitVars, combineVars,
                   cliVars, workbookVars, timerVars>>

NextRequest == Attempt \/ FetchAfterQuery

SpecRequest == InitRequest /\ [][NextRequest]_vars

\* C23: fetch(name, zip_code, country) sends one request whose parameters
\* carry the company name under 'query', the postal code under 'postalCode'
\* and the country under 'country'.
C23_QueryPostalCodeCountry ==
    \A k \in 1..Len(sent_params) :
        LET params == sent_params[k]
        IN  /\ Lit("query") \in DOMAIN params
            /\ params[Lit("query")] = query_args.name.v
            /\ Truthy(query_args.zip_code) =>
                  /\ Lit("postalCode") \in DOMAIN params
                  /\ params[Lit("postalCode")] = query_args.zip_code.v
            /\ Truthy(query_args.country) =>
                  /\ Lit("country") \in DOMAIN params
                  /\ params[Lit("country")] = query_args.country.v

\* a network error, an invalid JSON body, or HTTP 429/500/502/503/504
RetryableFailure(reply) ==
    \/ reply = NetworkError
    \/ reply.status = 200 /\ reply.body = "invalid"
    \/ reply.status \in {429, 500, 502, 503, 504}

LastReply == replies[Len(replies)]

\* C30: a NorthData query makes at most 5 request attempts; another attempt
\* follows only a network error, an invalid JSON body or HTTP
\* 429/500/502/503/504; HTTP 401/403 raises RuntimeError on the attempt that
\* received it and HTTP 404 returns an empty result, both without a further
\* attempt; after 5 retryable failures _query_api returns an empty result and
\* fetch reports 'no result' instead of raising.
C30_AtMostFiveAttempts ==
    /\ Len(sent_params) <= 5
    /\ Len(replies) = Len(sent_params)
    /\ \A k \in 1..Len(replies) :
          (k < Len(replies) \/ pc = "request") => RetryableFailure(replies[k])
    /\ (pc # "request" /\ LastReply.status \in {401, 403}) =>
          /\ query_raw = Raise("RuntimeError")
          /\ pc = "fetched" => fetch_result = Raise("RuntimeError")
    /\ (pc # "request" /\ LastReply.status = 404) =>
          /\ query_raw = Return(EmptyDict)
          /\ pc = "fetched" => fetch_result = Return(NoResultRecord(query_args.name))
    /\ (Len(replies) = 5 /\ RetryableFailure(LastReply)) =>
          /\ pc # "request"
          /\ query_raw = Return(EmptyDict)
          /\ pc = "fetched" => fetch_result = Return(NoResultRecord(query_args.name))

\* a network error, HTTP 503, HTTP 429, an invalid JSON body and HTTP 500 in
\* a row: five requests went out and fetch returned the 'no result' record
C30_Witness ==
    /\ pc = "fetched"
    /\ Len(sent_params) = 5
    /\ replies[1] = NetworkError
    /\ replies[2].status = 503
    /\ replies[3].status = 429
    /\ replies[4] = [status |-> 200, body |-> "invalid"]
    /\ replies[5].status = 500
    /\ fetch_result.exc = "none"
    /\ fetch_result.val.notes = <<NotePart("no result", <<>>)>>

----------------------------------------------------------------------------
(* bpauto/excel_io.py: the cached workbooks, iter_rows, write_result and   *)
(* save.  A sheet is a function from <<column, row>> to the value of the   *)
(* cell (Null, Str, Num); a cell outside its domain has the value None.    *)

\* worksheet[f"{column}{row}"].value
CellValue(ws, column, row) ==
    IF <<column, row>> \in DOMAIN ws THEN ws[<<column, row>>] ELSE Null

\* worksheet[f"{column}{row}"] = value
SetCell(ws, column, row, value) == (<<column, row>> :> value) @@ ws

\* worksheet.max_row
max_row(ws) ==
    IF DOMAIN ws = {} THEN 1
    ELSE CHOOSE r \in {c[2] : c \in DOMAIN ws} : \A c \in DOMAIN ws : c[2] <= r

\* _get_or_load_workbook that loads the file on every call
_get_or_load_workbook_uncached(cache, file, excel_path) ==
    (excel_path :> file[excel_path]) @@ cache

\* _WORKBOOK_CACHE after _get_or_load_workbook(excel_path)
_get_or_load_workbook(cache, file, excel_path) ==
    IF excel_path \in DOMAIN cache THEN cache ELSE (excel_path :> file[excel_path]) @@ cache

_normalise_column(column) ==
    IF column = Null THEN Null
    ELSE IF Upper(Strip(column.v)) = <<>> THEN Null
    ELSE Str(Upper(Strip(column.v)))

\* _cell_to_string that leaves the blanks around the text
_cell_to_string_untrimmed(value) ==
    IF value = Null THEN Null
    ELSE IF Strip(PyStr(value)) = <<>> THEN Null
    ELSE Str(PyStr(value))

_cell_to_string(value) ==
    IF value = Null THEN Null
    ELSE IF Strip(PyStr(value)) = <<>> THEN Null
    ELSE Str(Strip(PyStr(value)))

_read_cell(ws, column, row_index) ==
    IF _normalise_column(column) = Null THEN Null
    ELSE _cell_to_string(CellValue(ws, _normalise_column(column).v, row_index))

_find_last_row_with_name(ws, name_column, start_row) ==
    LET named == {r \in start_row..max_row(ws) : _read_cell(ws, name_column, r) # Null}
    IN  IF named = {} THEN start_row - 1
        ELSE CHOOSE r \in named : \A q \in named : q <= r

\* the members of a set of numbers in ascending order
Ascending(rows) ==
    [k \in 1..Cardinality(rows) |->
        CHOOSE r \in rows : Cardinality({q \in rows : q < r}) = k - 1]

\* the RowData of row row_idx
RowDataOf(ws, row_idx, args) ==
    LET name_value == _read_cell(ws, args.name_col, row_idx)
        additional_name_cols ==
            SelectSeq([i \in 1..Len(args.name_additional_cols) |->
                          _normalise_column(args.name_additional_cols[i])],
                      LAMBDA col : col # Null)
        extra_parts ==
            [i \in 1..Len(additional_name_cols) |->
                _read_cell(ws, additional_name_cols[i], row_idx)]
        combined_name == _combine_name_parts(<<name_value>> \o extra_parts)
    IN  [index |-> row_idx,
         name |-> IF Truthy(combined_name) THEN combined_name ELSE name_value,
         zip |-> _read_cell(ws, args.zip_col, row_idx),
         city |-> _read_cell(ws, args.city_col, row_idx),
         country |-> _read_cell(ws, args.country_col, row_idx)]

\* list(iter_rows(...)) on the loaded sheet ws
iter_rows(ws, args) ==
    IF _normalise_column(args.name_col) = Null THEN Raise("ValueError")
    ELSE LET stop == IF args.end # Null THEN args.end.v
                     ELSE _find_last_row_with_name(ws, args.name_col, args.start)
             yielded == {r \in args.start..stop : _read_cell(ws, args.name_col, r) # Null}
         IN  Return([k \in 1..Cardinality(yielded) |->
                        RowDataOf(ws, Ascending(yielded)[k], args)])

----------------------------------------------------------------------------
(* Specification SpecIterRows: iter_rows on a sheet of MaxSheetRows rows.  *)

MaxSheetRows == 2

\* the first row of the sheets with a cell
FirstSheetRow == 2

LastSheetRow == FirstSheetRow + MaxSheetRows - 1

PathA == "a.xlsx"

PathB == "b.xlsx"

Paths == {PathA, PathB}

ColC == <<"C">>

ColD == <<"D">>

ColAA == <<"A", "A">>

AcmePadded == <<" ", "A", "c", "m", "e", " ">>

AcmeNordWide == <<"A", "c", "m", "e", " ", " ", "N", "o", "r", "d">>

ZipPadded == <<" ", "4", "5", "1", "2", "8", " ">>

\* the name cell of a row: no cell, blanks only, a padded name, a name with
\* two blanks inside, a placeholder with two blanks inside
NameCells == {Null, PartBlank, Str(AcmePadded), Str(AcmeNordWide), PartOhneAngabeWide}

\* the cell of a second name column
Name2Cells == {Null, PartKG}

\* the postal code cell: no cell, a padded text, a number
ZipCells == {Null, Str(ZipPadded), Num(45128)}

\* the sheet with the given cells in the rows from FirstSheetRow on
SheetWith(names, names2, zips) ==
    LET cells == {<<ColC, FirstSheetRow + k - 1>> : k \in {j \in 1..Len(names) : names[j] # Null}}
                 \cup {<<ColD, FirstSheetRow + k - 1>> : k \in {j \in 1..Len(names2) : names2[j] # Null}}
                 \cup {<<ColAA, FirstSheetRow + k - 1>> : k \in {j \in 1..Len(zips) : zips[j] # Null}}
    IN  [c \in cells |->
            IF c[1] = ColC THEN names[c[2] - FirstSheetRow + 1]
            ELSE IF c[1] = ColD THEN names2[c[2] - FirstSheetRow + 1]
            ELSE zips[c[2] - FirstSheetRow + 1]]

EmptySheet == SheetWith(<<>>, <<>>, <<>>)

InitIterRows ==
    /\ pc = "iter_rows"
    /\ \E names \in [1..MaxSheetRows -> NameCells],
          names2 \in [1..MaxSheetRows -> Name2Cells],
          zips \in [1..MaxSheetRows -> ZipCells] :
          wb_file = (PathA :> SheetWith(names, names2, zips)) @@ (PathB :> EmptySheet)
    /\ wb_cache = EmptyDict
    /\ \E start \in FirstSheetRow..(LastSheetRow + 1),
          end \in {Null} \cup {Num(e) : e \in (FirstSheetRow - 1)..(LastSheetRow + 1)},
          name_col \in {Str(<<"c">>), Str(<<" ">>)},
          name_additional_cols \in {<<>>, <<Str(<<"d">>), Null>>} :
          wb_args = [excel_path |-> PathA, start |-> start, end |-> end,
                     name_col |-> name_col,
                     name_additional_cols |-> name_additional_cols,
                     zip_col |-> Str(<<"a", "a">>), city_col |-> Null,
                     country_col |-> Null]
    /\ wb_rows = Return(<<>>)
    /\ wb_writes = <<>>
    /\ wb_saved = [p \in Paths |-> -1]
    /\ NormalizeIdle
    /\ ExtractIdle
    /\ MatchIdle
    /\ ZipIdle
    /\ BatchIdle
    /\ SplitIdle
    /\ CombineIdle
    /\ CliIdle
    /\ RequestIdle
    /\ TimerIdle

\* list(iter_rows(**wb_args)): the workbook is loaded into the cache
IterRows ==
    /\ pc = "iter_rows"
    /\ wb_cache' = _get_or_load_workbook(wb_cache, wb_file, wb_args.excel_path)
    /\ wb_rows' = iter_rows(wb_cache'[wb_args.excel_path], wb_args)
    /\ pc' = "iterated"
    /\ UNCHANGED <<wb_file, wb_args, wb_writes, wb_saved, normalizeVars, extractVars,
                   matchVars, zipVars, batchVars, splitVars, combineVars, cliVars,
                   requestVars, timerVars>>

NextIterRows == IterRows

SpecIterRows == InitIterRows /\ [][NextIterRows]_vars

\* the sheet iter_rows read
SheetRead == wb_file[wb_args.excel_path]

\* the text of a cell without the whitespace around it, None for a blank cell
Trimmed(value) ==
    IF value = Null \/ Strip(PyStr(value)) = <<>> THEN Null ELSE Str(Strip(PyStr(value)))

NameOfRow(r) == Trimmed(CellValue(SheetRead, ColC, r))

\* stop: end or, when end is None, the last row from start on with a name
StopRow ==
    IF wb_args.end # Null THEN wb_args.end.v
    ELSE IF \E r \in wb_args.start..LastSheetRow : NameOfRow(r) # Null
    THEN CHOOSE r \in wb_args.start..LastSheetRow :
            /\ NameOfRow(r) # Null
            /\ \A q \in (r + 1)..LastSheetRow : NameOfRow(q) = Null
    ELSE wb_args.start - 1

\* iter_rows was called with a name column and has returned
RowsYielded == pc = "iterated" /\ Strip(wb_args.name_col.v) # <<>>

\* the rows from start to stop with a name, in ascending order, and the
\* postal code of each without the whitespace around it
RowsAndCellsAsRead ==
    /\ wb_rows.exc = "none"
    /\ {wb_rows.val[k].index : k \in 1..Len(wb_rows.val)}
          = {r \in wb_args.start..StopRow : NameOfRow(r) # Null}
    /\ \A k \in 1..(Len(wb_rows.val) - 1) : wb_rows.val[k].index < wb_rows.val[k + 1].index
    /\ \A k \in 1..Len(wb_rows.val) :
          /\ wb_rows.val[k].zip = Trimmed(CellValue(SheetRead, ColAA, wb_rows.val[k].index))
          /\ wb_rows.val[k].city = Null
          /\ wb_rows.val[k].country = Null

\* C24 as stated: iter_rows yields, in ascending row order, exactly the rows
\* between start and stop whose name cell is non-blank after trimming, where
\* stop is end or, when end is None, the last row with a non-blank name;
\* every returned cell value is trimmed (a blank cell is None).
C24_TrimmedRows ==
    RowsYielded =>
        /\ RowsAndCellsAsRead
        /\ \A k \in 1..Len(wb_rows.val) :
              wb_rows.val[k].name = NameOfRow(wb_rows.val[k].index)

\* the name iter_rows returns for row r
NameAsReturned(r) ==
    LET second == Trimmed(CellValue(SheetRead, ColD, r))
        combined == _combine_name_parts(<<NameOfRow(r), second>>)
        collapsed == CollapseWhitespace(NameOfRow(r).v)
    IN  IF wb_args.name_additional_cols # <<>>
        THEN IF combined # Null THEN combined ELSE NameOfRow(r)
        ELSE IF _is_noise_name_part(collapsed) THEN NameOfRow(r) ELSE Str(collapsed)

\* C24: iter_rows yields, in ascending row order, exactly the rows between
\* start and stop whose name cell is non-blank after trimming; every
\* returned cell value is trimmed (a blank cell is None), and the name has,
\* on top of that, every run of whitespace inside it collapsed to one blank
\* unless it is a placeholder; with name_additional_cols the name is what
\* _combine_name_parts makes of the name cell and the cells of those columns.
C24_TrimmedRowsCollapsedName ==
    RowsYielded =>
        /\ RowsAndCellsAsRead
        /\ \A k \in 1..Len(wb_rows.val) :
              wb_rows.val[k].name = NameAsReturned(wb_rows.val[k].index)

\* start 2 and no end on a sheet with a blank name in row 2 and a padded
\* name and postal code in row 3: row 3 alone is yielded, both trimmed
C24_Witness ==
    /\ RowsYielded
    /\ wb_args.start = FirstSheetRow
    /\ wb_args.end = Null
    /\ wb_args.name_additional_cols = <<>>
    /\ CellValue(SheetRead, ColC, FirstSheetRow) = PartBlank
    /\ CellValue(SheetRead, ColC, FirstSheetRow + 1) = Str(AcmePadded)
    /\ CellValue(SheetRead, ColAA, FirstSheetRow + 1) = Str(ZipPadded)
    /\ Len(wb_rows.val) = 1
    /\ wb_rows.val[1].index = FirstSheetRow + 1
    /\ wb_rows.val[1].name = Str(Acme)
    /\ wb_rows.val[1].zip = Str(Zip45128)

----------------------------------------------------------------------------
(* Specification SpecWorkbook: write_result, save and reset on the files   *)
(* of two paths.  A record is a function from its keys to None or a str; a *)
(* mapping is the sequence of its <<key, column>> items.                   *)

MaxWrites == 2

\* the cell value write_result stores for a field
CellValueOf(value) == IF value = Null THEN Str(<<>>) ELSE Str(PyStr(value))

\* the sheet after the items of the mapping from position i on
RECURSIVE WriteItems(_, _, _, _, _)
WriteItems(ws, row_index, record, mapping, i) ==
    IF i > Len(mapping) THEN ws
    ELSE LET key == mapping[i][1]
             column_letter == _normalise_column(mapping[i][2])
         IN  IF column_letter = Null \/ key \notin DOMAIN record
             THEN WriteItems(ws, row_index, record, mapping, i + 1)
             ELSE WriteItems(SetCell(ws, column_letter.v, row_index, CellValueOf(record[key])),
                             row_index, record, mapping, i + 1)

\* write_result on the loaded sheet ws
write_result(ws, row_index, record, mapping) == WriteItems(ws, row_index, record, mapping, 1)

\* the cells of the file workbook.save writes: a cell whose value is '' is
\* written without a value
SavedSheet(ws) == [c \in DOMAIN ws |-> IF ws[c] = Str(<<>>) THEN Null ELSE ws[c]]

ColW == <<"W">>

ColAB == <<"A", "B">>

OldName == <<"O", "l", "d">>

\* the records of a run: notes None, no notes, notes with a text
Records ==
    { (Lit("legal_name") :> Str(Acme)) @@ (Lit("notes") :> Null),
      (Lit("legal_name") :> Str(AcmeNord)),
      (Lit("legal_name") :> Str(AcmeNord)) @@ (Lit("notes") :> Str(ConfidenceNote)) }

\* the mappings: lower-case and upper-case column letters, a key no record
\* has, a key without a column
Mappings ==
    { << <<Lit("legal_name"), Str(<<"w">>)>>, <<Lit("notes"), Str(ColAB)>>,
         <<Lit("source"), Str(<<"A", "D">>)>> >>,
      << <<Lit("legal_name"), Str(ColW)>>, <<Lit("notes"), Str(<<" ">>)>> >> }

InitWorkbook ==
    /\ pc = "workbook"
    /\ \E old \in {EmptySheet, SetCell(EmptySheet, ColW, FirstSheetRow, Str(OldName))} :
          wb_file = [p \in Paths |-> old]
    /\ wb_cache = EmptyDict
    /\ wb_args = EmptyDict
    /\ wb_rows = Return(<<>>)
    /\ wb_writes = <<>>
    /\ wb_saved = [p \in Paths |-> -1]
    /\ NormalizeIdle
    /\ ExtractIdle
    /\ MatchIdle
    /\ ZipIdle
    /\ BatchIdle
    /\ SplitIdle
    /\ CombineIdle
    /\ CliIdle
    /\ RequestIdle
    /\ TimerIdle

\* write_result(excel_path, sheet, row_index, record, mapping)
WriteResult ==
    /\ pc = "workbook"
    /\ Len(wb_writes) < MaxWrites
    /\ \E excel_path \in Paths, row_index \in FirstSheetRow..LastSheetRow,
          record \in Records, mapping \in Mappings :
          LET loaded == _get_or_load_workbook(wb_cache, wb_file, excel_path)
          IN  /\ wb_cache' =
                    [loaded EXCEPT ![excel_path] = write_result(@, row_index, record, mapping)]
              /\ wb_writes' =
                    Append(wb_writes,
                           [excel_path |-> excel_path, row_index |-> row_index,
                            record |-> record, mapping |-> mapping, lost |-> FALSE])
    /\ UNCHANGED <<pc, wb_file, wb_args, wb_rows, wb_saved, normalizeVars, extractVars,
                   matchVars, zipVars, batchVars, splitVars, combineVars, cliVars,
                   requestVars, timerVars>>

\* save(excel_path)
Save ==
    /\ pc = "workbook"
    /\ \E excel_path \in Paths :
          /\ wb_file' =
                IF excel_path \in DOMAIN wb_cache
                THEN [wb_file EXCEPT ![excel_path] = SavedSheet(wb_cache[excel_path])]
                ELSE wb_file
          /\ wb_saved' = [wb_saved EXCEPT ![excel_path] = Len(wb_writes)]
    /\ UNCHANGED <<pc, wb_cache, wb_args, wb_rows, wb_writes, normalizeVars, extractVars,
                   matchVars, zipVars, batchVars, splitVars, combineVars, cliVars,
                   requestVars, timerVars>>

\* reset(): the writes no save call has stored are lost
Reset ==
    /\ pc = "workbook"
    /\ wb_cache # EmptyDict
    /\ wb_cache' = EmptyDict
    /\ wb_writes' =
          [k \in 1..Len(wb_writes) |->
              IF k > wb_saved[wb_writes[k].excel_path]
              THEN [wb_writes[k] EXCEPT !.lost = TRUE] ELSE wb_writes[k]]
    /\ UNCHANGED <<pc, wb_file, wb_args, wb_rows, wb_saved, normalizeVars, extractVars,
                   matchVars, zipVars, batchVars, splitVars, combineVars, cliVars,
                   requestVars, timerVars>>

NextWorkbook == WriteResult \/ Save \/ Reset

SpecWorkbook == InitWorkbook /\ [][NextWorkbook]_vars

\* the column and the key of item i of the mapping of write w, when the item
\* has a column and the record has the key
ItemWrites(w, i, column) ==
    /\ _normalise_column(w.mapping[i][2]) = Str(column)
    /\ w.mapping[i][1] \in DOMAIN w.record

\* write k put a field into the cell of column and row of the file of path
WritesCell(k, path, column, row) ==
    /\ wb_writes[k].excel_path = path
    /\ wb_writes[k].row_index = row
    /\ ~wb_writes[k].lost
    /\ \E i \in 1..Len(wb_writes[k].mapping) : ItemWrites(wb_writes[k], i, column)

\* the cell shows the field: its text, or nothing for None and ''
Shows(cell, field) ==
    IF field = Null \/ field = Str(<<>>) THEN cell \in {Null, Str(<<>>)} ELSE cell = field

WrittenColumns == {ColW, ColAB, <<"A", "D">>}

\* after save(path) the file shows, for every written row, every record
\* field with a mapped column in that column, the last write to a cell
\* winning
SavedWritesShown ==
    \A path \in Paths, column \in WrittenColumns, row \in FirstSheetRow..LastSheetRow :
        \A k \in 1..wb_saved[path] :
            (/\ WritesCell(k, path, column, row)
             /\ \A j \in (k + 1)..wb_saved[path] : ~WritesCell(j, path, column, row))
            => \A i \in 1..Len(wb_writes[k].mapping) :
                  (/\ ItemWrites(wb_writes[k], i, column)
                   /\ \A h \in (i + 1)..Len(wb_writes[k].mapping) :
                         ~ItemWrites(wb_writes[k], h, column))
                  => Shows(CellValue(wb_file[path], column, row),
                           wb_writes[k].record[wb_writes[k].mapping[i][1]])

\* a step changes the file of a path only by save on a loaded path, and a
\* write_result call leaves the cached workbooks of the other paths alone
FileChangesOnlyBySave ==
    \A path \in Paths :
        /\ wb_file'[path] # wb_file[path] =>
              /\ path \in DOMAIN wb_cache
              /\ wb_saved'[path] = Len(wb_writes)
              /\ UNCHANGED <<wb_cache, wb_writes>>
        /\ (Len(wb_writes') > Len(wb_writes) /\ path \in DOMAIN wb_cache
            /\ wb_writes'[Len(wb_writes')].excel_path # path) =>
              wb_cache'[path] = wb_cache[path]

\* C25: after any sequence of write_result calls on a path followed by
\* save(path), the file shows, for each written row, every record field that
\* has a mapped column in that column (None written as empty string), the
\* last write to a cell winning; writes go to one cached workbook per path
\* and reach the file only through save, and save on a path that was never
\* loaded changes nothing.
C25_WritesReachFileThroughSave == []SavedWritesShown /\ [][FileChangesOnlyBySave]_vars

\* two writes to the same row of one path, the first with notes None, the
\* second with another legal_name and no notes, then save on both paths:
\* the file of the written path shows the second name and no notes, the file
\* of the path that was not loaded is as it was
C25_Witness ==
    /\ pc = "workbook"
    /\ Len(wb_writes) = 2
    /\ WritesCell(1, PathA, ColW, FirstSheetRow)
    /\ WritesCell(1, PathA, ColAB, FirstSheetRow)
    /\ wb_writes[1].record[Lit("notes")] = Null
    /\ WritesCell(2, PathA, ColW, FirstSheetRow)
    /\ ~WritesCell(2, PathA, ColAB, FirstSheetRow)
    /\ wb_writes[2].record[Lit("legal_name")] # wb_writes[1].record[Lit("legal_name")]
    /\ wb_saved[PathA] = 2
    /\ wb_saved[PathB] = 2
    /\ PathB \notin DOMAIN wb_cache
    /\ CellValue(wb_file[PathA], ColW, FirstSheetRow) = Str(AcmeNord)
    /\ CellValue(wb_file[PathA], ColAB, FirstSheetRow) = Null
    /\ CellValue(wb_file[PathB], ColW, FirstSheetRow) = Str(OldName)

----------------------------------------------------------------------------
(* Specification SpecTimer: the batch loop step by step, with every search *)
(* perform_search submits.  A search whose results table does not come up  *)
(* and a download that gives no file are run again by rerun_search; the    *)
(* time that has passed since the timer start is the environment's.        *)

MaxTimerJobs == 3

\* the cap of the global counter
MaxCounter == 62

\* the rows of a sheet: a German company with a SAP number, a company of
\* another country
TimerRows ==
    { RowWith(Str(Acme), Str(SapNumber), Null, Str(Germany)),
      RowWith(Str(Acme), Null, Str(SapNumber), Str(UnitedStates)) }

InitTimer ==
    /\ pc = "timer_head"
    /\ \E rows \in StringsUpTo(TimerRows, MaxTimerJobs) :
          /\ sheet = SheetOf(rows)
          /\ jobs = read_jobs_from_excel(SheetOf(rows))
          /\ downloads = [k \in 1..Len(rows) |-> 0]
          /\ seen = [k \in 1..Len(rows) |-> -1]
    /\ download_ad \in BOOLEAN
    /\ job_i = 1
    /\ counter = 0
    /\ waits = 0
    /\ window = 0
    /\ wait_at = <<>>
    /\ NormalizeIdle
    /\ ExtractIdle
    /\ MatchIdle
    /\ ZipIdle
    /\ SplitIdle
    /\ CombineIdle
    /\ CliIdle
    /\ RequestIdle
    /\ WorkbookIdle

\* the head of a pass: the country test, the hour timer, the name test
TimerHead ==
    /\ pc = "timer_head"
    /\ job_i <= Len(jobs)
    /\ \E under_an_hour \in BOOLEAN :
          LET job == jobs[job_i]
          IN  IF "country" \notin DOMAIN job
              THEN /\ pc' = "batch_crashed"
                   /\ UNCHANGED <<job_i, waits, window, wait_at>>
              ELSE IF job.country # Str(Germany)
              THEN /\ job_i' = job_i + 1
                   /\ UNCHANGED <<pc, waits, window, wait_at>>
              ELSE /\ IF counter >= SearchLimit
                      THEN /\ waits' = IF under_an_hour THEN waits + 1 ELSE waits
                           /\ wait_at' = IF under_an_hour
                                        THEN Append(wait_at, counter)
                                        ELSE wait_at
                           /\ window' = 0
                      ELSE UNCHANGED <<waits, window, wait_at>>
                   /\ IF job.name = Null
                      THEN job_i' = job_i + 1 /\ UNCHANGED pc
                      ELSE pc' = "timer_search" /\ UNCHANGED job_i
    /\ UNCHANGED <<jobs, download_ad, sheet, downloads, seen, counter, normalizeVars,
                   extractVars, matchVars, zipVars, splitVars, combineVars, cliVars,
                   requestVars, workbookVars>>

\* perform_search clicks on search; when the results table does not come up,
\* rerun_search runs perform_search again
SubmitSearch ==
    /\ pc \in {"timer_search", "timer_download_search"}
    /\ counter < MaxCounter
    /\ counter' = counter + 1
    /\ window' = window + 1
    /\ \E table_found \in BOOLEAN :
          pc' = IF ~table_found THEN pc
                ELSE IF pc = "timer_search" THEN "timer_results"
                ELSE "timer_download"
    /\ UNCHANGED <<jobs, download_ad, job_i, sheet, downloads, seen, waits, wait_at,
                   normalizeVars, extractVars, matchVars, zipVars, splitVars,
                   combineVars, cliVars, requestVars, workbookVars>>

\* get_results and the test for exactly one result row
GetResults ==
    /\ pc = "timer_results"
    /\ \E n \in 0..MaxResults :
          /\ seen' = [seen EXCEPT ![job_i] = n]
          /\ IF n # 1
             THEN /\ sheet' = write_to_excel_error(sheet, job_i + StartRow - 1, DecStr(n), Null)
                  /\ job_i' = job_i + 1
                  /\ pc' = "timer_head"
             ELSE IF ~download_ad
             THEN /\ job_i' = job_i + 1
                  /\ pc' = "timer_head"
                  /\ UNCHANGED sheet
             ELSE /\ pc' = "timer_download"
                  /\ UNCHANGED <<sheet, job_i>>
    /\ UNCHANGED <<jobs, download_ad, downloads, counter, waits, timerVars,
                   normalizeVars, extractVars, matchVars, zipVars, splitVars,
                   combineVars, cliVars, requestVars, workbookVars>>

\* download_ad_for_row: without a file rerun_search searches again; with the
\* file the row is written
DownloadAd ==
    /\ pc = "timer_download"
    /\ \E saved_file \in BOOLEAN,
          update_info \in {UpdateInfo(pdf_text, replace_umlauts(Upper(name)),
                                      jobs[job_i].sap) :
                               pdf_text \in PdfTexts, name \in ResultNames} :
          IF ~saved_file
          THEN /\ pc' = "timer_download_search"
               /\ UNCHANGED <<sheet, job_i>>
          ELSE IF Lit("register_type") \notin DOMAIN update_info
          THEN /\ pc' = "batch_crashed"
               /\ UNCHANGED <<sheet, job_i>>
          ELSE /\ sheet' =
                     IF update_info[Lit("register_type")] = Lit("unexpected Format")
                     THEN write_to_excel_error(sheet, job_i + StartRow - 1,
                                               UnexpectedPdfFormat,
                                               Str(update_info[Lit("download_path")]))
                     ELSE write_update_to_excel(sheet, job_i + StartRow - 1, update_info)
               /\ job_i' = job_i + 1
               /\ pc' = "timer_head"
    /\ UNCHANGED <<jobs, download_ad, downloads, seen, counter, waits, timerVars,
                   normalizeVars, extractVars, matchVars, zipVars, splitVars,
                   combineVars, cliVars, requestVars, workbookVars>>

\* the loop is through
FinishTimer ==
    /\ pc = "timer_head"
    /\ job_i > Len(jobs)
    /\ pc' = "batch_done"
    /\ UNCHANGED <<batchVars, timerVars, normalizeVars, extractVars, matchVars, zipVars,
                   splitVars, combineVars, cliVars, requestVars, workbookVars>>

NextTimer == TimerHead \/ SubmitSearch \/ GetResults \/ DownloadAd \/ FinishTimer

SpecTimer == InitTimer /\ [][NextTimer]_vars

\* C26: no more than 60 searches are submitted between the start of the hour
\* timer and its next reset, first attempts and reruns alike.
C26_SixtySearchesPerWindow == window <= 60

====
